---- MODULE Spec2Model ----
(***************************************************************************)
(* Model of the trading agent of backend/src/agents/trading_agent.py and   *)
(* of the control surface of backend/src/server.py.                        *)
(*                                                                         *)
(* Ten specifications share the definitions below:                         *)
(*   SpecAlloc   the allocation parser and allocate_portfolio, applied to  *)
(*               model responses drawn from AllocResponses;                *)
(*   SpecCycle   the cycle loop of one started agent, statement by         *)
(*               statement, with stop() as an outside request;             *)
(*   SpecServer  the control surface: run_cycle requests creating agents   *)
(*               and starting their loops;                                 *)
(*   SpecIngest  one call of process_user_input on an agent whose loop is  *)
(*               not running;                                              *)
(*   SpecFeedback  one call of process_user_input beside the loop thread   *)
(*               of the same agent, which appends rows, sets statuses and  *)
(*               logs while the call runs;                                 *)
(*   SpecAnalysis  analyze_market_data applied to replies drawn from       *)
(*               AnalysisResponses;                                        *)
(*   SpecWallet  the cycle loop of an agent whose wallet changes between   *)
(*               two iterations;                                           *)
(*   SpecStop    the cycle loop under fair scheduling, every call and      *)
(*               every sleep returning;                                    *)
(*   SpecLogs    self.log and save_logs called by the threads of two       *)
(*               agents and of a feedback call;                            *)
(*   SpecEntries the cycle loop with allocations that take the whole       *)
(*               portfolio size or hold a NaN.                             *)
(*                                                                         *)
(* Text is modelled at the level of lexemes: a string is a sequence of     *)
(* units, a unit being one character ("{", "}", ":", ",", " ") or one      *)
(* lexeme (a quoted key, a number, a run of prose, "nl" for the newline    *)
(* character, "tab" for the tab character, "esc" for the two characters    *)
(* backslash n, "esctab" for the two characters backslash t, "bs" for one  *)
(* backslash).                                                             *)
(*                                                                         *)
(* self.log and the files it writes are taken to succeed; the collaborators*)
(* that the code calls (wallet holdings, balances, the language model,     *)
(* entries and exits) may raise wherever the code calls them.              *)
(***************************************************************************)
EXTENDS Integers, Sequences, FiniteSets, TLC

VARIABLES
    usd_size,        \* src.config usd_size: the portfolio size in USD
    max_pct,         \* src.config MAX_POSITION_PERCENTAGE
    alloc_replies,   \* the replies the language model can give to an allocation prompt
    a_pc,            \* allocate_portfolio: where the call stands
    a_response,      \* parse_allocation_response: response
    a_first,         \* "ok" / "failed": how the first pass ended ("-" before it)
    a_fixed,         \* parse_allocation_response: what the repair call gave
    a_prompts,       \* client.messages.create calls made by parse_allocation_response
    a_parsed,        \* what parse_allocation_response returned
    a_out,           \* what allocate_portfolio returned
    status,          \* self.status
    stop,            \* self.__stop
    tid,             \* TRUE once run() has stored the thread handle in self.tid
    pc,              \* where the agent's loop thread stands
    wallet,          \* the tokens get_wallet_owned_tokens finds, in order
    MONITORED_TOKENS,  \* _run_trading_cycle: MONITORED_TOKENS
    market_data,     \* _run_trading_cycle: the tokens of market_data, in order
    idx,             \* the position of the running for loop
    recommendations_df,  \* self.recommendations_df: the ledger
    csv,             \* runs/<run_id>_recommendations_latest.csv
    iter_logs,       \* what the loop has appended to self.logs since the iteration began
    allocation,      \* _run_trading_cycle: allocation
    remaining,       \* execute_allocations: the keys not yet visited
    wakes,           \* how many end-of-cycle sleeps have run out
    analysis_replies,  \* the replies the language model can give to an analysis prompt
    last_analysis,   \* the last analyze_market_data call of the iteration
    last_exit,       \* the last row handle_exits went through
    last_entry,      \* the last key execute_allocations went through
    stop_when,       \* when stop() first set the flag: "-", "early", "iteration", "late";
                     \* "ignored" while stop() has been called without setting it
    agent,           \* server.py: the global agent (0 for None)
    created,         \* how many TradingAgent objects have been constructed
    s_run_id,        \* per agent: self.run_id
    s_status,        \* per agent: self.status
    s_stop,          \* per agent: self.__stop
    s_tid,           \* per agent: TRUE once self.tid holds the thread
    s_pc,            \* per agent: where its loop thread stands
    s_wakes,         \* how many end-of-cycle sleeps have run out, all agents together
    req_pc,          \* per run_cycle request: where its handler stands
    req_agent,       \* per run_cycle request: the handler's local agent (0 before)
    logs,            \* self.logs: who appended each entry, and under which role
    feedback_replies,  \* what the language model can answer to a feedback prompt
    f_pc,            \* process_user_input: where the call stands
    log_length,      \* process_user_input: log_length
    recommendation,  \* process_user_input: what the model call gave, decoded
    f_frame,         \* process_user_input: the frame pd.concat read
    f_return,        \* process_user_input: what the call returned
    c_pc,            \* the loop thread beside a feedback call: where it stands
    c_todo,          \* the loop thread: the tokens still to analyse
    c_frame,         \* the loop thread: the frame pd.concat or iterrows read
    c_idx,           \* the loop thread: the row handle_exits is at
    c_logs,          \* how many entries the loop thread has appended to self.logs
    mutex,           \* the module's lock (line 82): "free", or the thread that holds it
    l_pc,            \* per thread: where its self.log call stands
    l_calls,         \* per thread: how many self.log calls it has made
    l_run,           \* the run id of the second agent
    l_logs,          \* per agent: self.logs
    l_file,          \* per run id: runs/<run_id>_logs.json, as it is on disk
    l_last           \* per run id: the last version json.dump wrote in full

allocVars == <<usd_size, max_pct, alloc_replies, a_pc, a_response, a_first, a_fixed,
               a_prompts, a_parsed, a_out>>

cycleVars == <<status, stop, tid, pc, wallet, MONITORED_TOKENS, market_data, idx,
               recommendations_df, csv, iter_logs, allocation, remaining, wakes,
               analysis_replies, last_analysis, last_exit, last_entry, stop_when>>

serverVars == <<agent, created, s_run_id, s_status, s_stop, s_tid, s_pc, s_wakes,
                req_pc, req_agent>>

feedbackVars == <<logs, feedback_replies, f_pc, log_length, recommendation, f_frame,
                  f_return, c_pc, c_todo, c_frame, c_idx, c_logs>>

logVars == <<mutex, l_pc, l_calls, l_run, l_logs, l_file, l_last>>

vars == <<allocVars, cycleVars, serverVars, feedbackVars, logVars>>

\* The threads that log: the loop thread of the first agent, a feedback call
\* on the first agent, and the thread that constructs and runs the second.
Threads == {"old", "fb", "new"}

\* The agent a thread logs for.
AgentOf(t) == IF t = "new" THEN 2 ELSE 1

\* No log call: the lock free and no agent logging.
NoLogs ==
    /\ mutex = "free"
    /\ l_pc = [t \in Threads |-> "none"]
    /\ l_calls = [t \in Threads |-> 0]
    /\ l_run = "r1"
    /\ l_logs = [a \in {1, 2} |-> <<>>]
    /\ l_file = [r \in {"r1", "r2"} |-> [exists |-> FALSE, whole |-> TRUE, logs |-> <<>>]]
    /\ l_last = [r \in {"r1", "r2"} |-> <<>>]

----------------------------------------------------------------------------
(* Configuration (src.config, imported at trading_agent.py:77).            *)

\* The address of the cash token.
USDC_ADDRESS == "EPjF"

SOL_ADDRESS == "So11"

\* An excluded set that holds the cash token only.
EXCLUDED_TOKENS_OnlyCash == {USDC_ADDRESS}

\* "Skip excluded tokens (USDC and SOL)"
EXCLUDED_TOKENS == {USDC_ADDRESS, SOL_ADDRESS}

----------------------------------------------------------------------------
(* Strings as sequences of units.                                          *)

\* str.find(c): the 0-based index of the first c, or -1.
Find(s, c) ==
    IF \E i \in 1..Len(s) : s[i] = c
    THEN (CHOOSE i \in 1..Len(s) : s[i] = c /\ \A j \in 1..(i-1) : s[j] # c) - 1
    ELSE -1

\* str.rfind(c): the 0-based index of the last c, or -1.
RFind(s, c) ==
    IF \E i \in 1..Len(s) : s[i] = c
    THEN (CHOOSE i \in 1..Len(s) : s[i] = c /\ \A j \in (i+1)..Len(s) : s[j] # c) - 1
    ELSE -1

\* s[start:end] for 0 <= start, 0 <= end.
Slice(s, start, end) == SubSeq(s, start + 1, end)

\* s.replace(c, "") for a one-unit c.
Remove(s, c) == SelectSeq(s, LAMBDA u : u # c)

\* s.replace("    ", ""): every non-overlapping run of four spaces, from the left.
RECURSIVE RemoveIndent(_)
RemoveIndent(s) ==
    IF Len(s) < 4 THEN s
    ELSE IF SubSeq(s, 1, 4) = <<" ", " ", " ", " ">>
         THEN RemoveIndent(SubSeq(s, 5, Len(s)))
         ELSE <<Head(s)>> \o RemoveIndent(Tail(s))

Whitespace == {" ", "nl", "tab"}

\* s.strip()
RECURSIVE Strip(_)
Strip(s) ==
    IF s = <<>> THEN s
    ELSE IF Head(s) \in Whitespace THEN Strip(Tail(s))
    ELSE IF s[Len(s)] \in Whitespace THEN Strip(SubSeq(s, 1, Len(s) - 1))
    ELSE s

\* The cleaning chain of parse_allocation_response.
CleanJson(json_str) ==
    Strip(Remove(Remove(Remove(RemoveIndent(Remove(json_str, "nl")), "tab"), "esc"), " "))

----------------------------------------------------------------------------
(* json.loads on a cleaned string, for the objects the lexemes can spell.  *)

\* Quoted strings and the text they hold.
StringLexemes == {"\"T1\"", "\"T2\"", "\"USDC_ADDRESS\"", "\"EPjF\"", "\"So11\""}

Unquote(lex) ==
    CASE lex = "\"T1\"" -> "T1"
      [] lex = "\"T2\"" -> "T2"
      [] lex = "\"USDC_ADDRESS\"" -> "USDC_ADDRESS"
      [] lex = "\"EPjF\"" -> "EPjF"
      [] lex = "\"So11\"" -> "So11"

\* Number lexemes and their values.
NumberLexemes == {"0", "1", "2", "3", "4", "-1"}

NumberOf(lex) ==
    CASE lex = "0" -> 0
      [] lex = "1" -> 1
      [] lex = "2" -> 2
      [] lex = "3" -> 3
      [] lex = "4" -> 4
      [] lex = "-1" -> -1

\* A decoded JSON value: a number, a string, true, null, or the float nan
\* that json.loads gives for the literal NaN.  nan has no place in the order
\* of the numbers: every comparison with it is false, and a sum that holds it
\* is nan.  Its n is never read as a number.
JsonValue(lex) ==
    IF lex \in NumberLexemes THEN [kind |-> "num", n |-> NumberOf(lex)]
    ELSE IF lex \in StringLexemes THEN [kind |-> "str", n |-> 0]
    ELSE IF lex = "true" THEN [kind |-> "bool", n |-> 1]
    ELSE IF lex = "NaN" THEN [kind |-> "nan", n |-> 0]
    ELSE [kind |-> "null", n |-> 0]

ValueLexemes == NumberLexemes \cup StringLexemes \cup {"true", "null", "NaN"}

EmptyMap == [k \in {} |-> 0]

\* dict[key] = value
Put(m, key, value) ==
    [k \in DOMAIN m \cup {key} |-> IF k = key THEN value ELSE m[k]]

\* The members of an object, after its "{": key ":" value, then "," and more.
\* A key met twice keeps its last value, as json.loads does.
RECURSIVE JsonMembers(_, _)
JsonMembers(s, acc) ==
    IF Len(s) < 3 \/ s[1] \notin StringLexemes \/ s[2] # ":" \/ s[3] \notin ValueLexemes
    THEN [ok |-> FALSE, obj |-> EmptyMap]
    ELSE LET next == Put(acc, Unquote(s[1]), JsonValue(s[3]))
         IN  IF Len(s) = 3 THEN [ok |-> TRUE, obj |-> next]
             ELSE IF s[4] = "," THEN JsonMembers(SubSeq(s, 5, Len(s)), next)
             ELSE [ok |-> FALSE, obj |-> EmptyMap]

\* json.loads(s): ok is FALSE where json.loads raises.
JsonLoads(s) ==
    IF Len(s) < 2 \/ s[1] # "{" \/ s[Len(s)] # "}"
    THEN [ok |-> FALSE, obj |-> EmptyMap]
    ELSE IF Len(s) = 2 THEN [ok |-> TRUE, obj |-> EmptyMap]
    ELSE JsonMembers(SubSeq(s, 2, Len(s) - 1), EmptyMap)

\* isinstance(amount, (int, float)): bool is a subclass of int, nan is a float.
IsNumber(v) == v.kind \in {"num", "bool", "nan"}

----------------------------------------------------------------------------
(* parse_allocation_response and allocate_portfolio.                       *)

\* None, and a returned dict.
NoneValue == [none |-> TRUE, map |-> EmptyMap]

Some(m) == [none |-> FALSE, map |-> m]

\* message.content: a str, or a list holding one TextBlock (the shape that
\* analyze_market_data unpacks at lines 205-213).
ContentShapes == {"str", "list"}

\* What a call of the language model gives: it raises, or it answers content.
ModelRaises == [raised |-> TRUE, shape |-> "str", text |-> <<>>]

Reply(shape, text) == [raised |-> FALSE, shape |-> shape, text |-> text]

NoReply == Reply("str", <<>>)

\* repr of a str, unit by unit: a newline is written as a backslash and n, a
\* tab as a backslash and t, and a backslash is doubled.
RECURSIVE Repr(_)
Repr(text) ==
    IF text = <<>> THEN <<>>
    ELSE (CASE Head(text) = "nl"  -> <<"esc">>
            [] Head(text) = "tab" -> <<"esctab">>
            [] Head(text) = "esc" -> <<"bs", "esc">>
            [] OTHER -> <<Head(text)>>) \o Repr(Tail(text))

\* Line 433, str(response): a str is itself, a list is written with the repr
\* of its block.
Str(message) ==
    IF message.shape = "str" THEN message.text
    ELSE <<"[TextBlock(text='">> \o Repr(message.text) \o <<"', type='text')]">>

\* The two validation loops: every amount a number, none negative.  nan < 0
\* is false.
AmountsValid(allocations) ==
    \A token \in DOMAIN allocations :
        /\ IsNumber(allocations[token])
        /\ ~(allocations[token].kind # "nan" /\ allocations[token].n < 0)

\* The first pass, lines 440-474: the dict, or None where the pass raises.
FirstPass(response) ==
    LET start == Find(response, "{")
        end   == RFind(response, "}") + 1
    IN  IF start = -1 \/ end = 0 THEN NoneValue
        ELSE LET allocations == JsonLoads(CleanJson(Slice(response, start, end)))
             IN  IF ~allocations.ok THEN NoneValue
                 ELSE IF ~AmountsValid(allocations.obj) THEN NoneValue
                 ELSE Some(allocations.obj)

\* The repair pass on the repair reply, lines 496-537.  The content has no
\* attribute text in either shape, so fixed_response is the content itself:
\* a list has no find, and what that raises is caught at line 535.
RepairPass(fix_message) ==
    LET fixed_response == fix_message.text
        start == Find(fixed_response, "{")
        end   == RFind(fixed_response, "}") + 1
    IN  IF fix_message.shape = "list" THEN NoneValue
        ELSE IF start = -1 \/ end = 0 THEN NoneValue
        ELSE LET fixed_json_str ==
                     Strip(Remove(Remove(Remove(RemoveIndent(
                         Remove(Slice(fixed_response, start, end), "nl")),
                         "tab"), "esc"), " "))
                 allocations == JsonLoads(fixed_json_str)
             IN  IF ~allocations.ok THEN NoneValue
                 ELSE IF ~AmountsValid(allocations.obj) THEN NoneValue
                 ELSE Some(allocations.obj)

\* sum(allocations.values()) of values that are not nan: True counts as 1.
RECURSIVE SumValues(_)
SumValues(m) ==
    IF DOMAIN m = {} THEN 0
    ELSE LET k == CHOOSE x \in DOMAIN m : TRUE
         IN  m[k].n + SumValues([x \in DOMAIN m \ {k} |-> m[x]])

\* The amount is copied to the cash token's address and the literal key stays.
FixUsdcKey_KeepsLiteral(allocations) ==
    IF "USDC_ADDRESS" \in DOMAIN allocations
    THEN Put(allocations, USDC_ADDRESS, allocations["USDC_ADDRESS"])
    ELSE allocations

\* Lines 326-328: the amount under the literal key moves to the cash token's address.
FixUsdcKey(allocations) ==
    IF "USDC_ADDRESS" \in DOMAIN allocations
    THEN Put([k \in DOMAIN allocations \ {"USDC_ADDRESS"} |-> allocations[k]],
             USDC_ADDRESS, allocations["USDC_ADDRESS"])
    ELSE allocations

ValidateAllocation_RejectsEqual(parsed, total) ==
    IF parsed.none \/ DOMAIN parsed.map = {} THEN NoneValue
    ELSE LET allocations == FixUsdcKey(parsed.map)
         IN  IF /\ \A k \in DOMAIN allocations : allocations[k].kind # "nan"
                    /\ SumValues(allocations) >= total
             THEN NoneValue
             ELSE Some(allocations)

ValidateAllocation_NoTotalCheck(parsed, total) ==
    IF parsed.none \/ DOMAIN parsed.map = {} THEN NoneValue
    ELSE Some(FixUsdcKey(parsed.map))

\* Lines 322-345 of allocate_portfolio, on what the parser returned.  With a
\* nan among the values total_allocated is nan, and nan > usd_size is false.
ValidateAllocation(parsed, total) ==
    IF parsed.none \/ DOMAIN parsed.map = {} THEN NoneValue
    ELSE LET allocations == FixUsdcKey(parsed.map)
         IN  IF /\ \A k \in DOMAIN allocations : allocations[k].kind # "nan"
                /\ SumValues(allocations) > total
             THEN NoneValue
             ELSE Some(allocations)

\* Line 279: get_wallet_owned_tokens, before the try. When it raises the
\* exception leaves allocate_portfolio.
AllocWallet ==
    /\ a_pc = "wallet"
    /\ \E raises \in BOOLEAN :
          a_pc' = IF raises THEN "escaped" ELSE "prompt"
    /\ UNCHANGED <<usd_size, max_pct, alloc_replies, a_response, a_first, a_fixed,
                   a_prompts, a_parsed, a_out>>
    /\ UNCHANGED <<cycleVars, serverVars, feedbackVars, logVars>>

\* Lines 282-318: the allocation prompt. A raise is caught at line 347.
AllocPrompt ==
    /\ a_pc = "prompt"
    /\ \E message \in {ModelRaises}
                      \cup {Reply(sh, r) : sh \in ContentShapes, r \in alloc_replies} :
          IF message.raised
          THEN /\ a_pc' = "returned"
               /\ a_out' = NoneValue
               /\ UNCHANGED a_response
          ELSE /\ a_pc' = "first"
               /\ a_response' = Str(message)
               /\ UNCHANGED a_out
    /\ UNCHANGED <<usd_size, max_pct, alloc_replies, a_first, a_fixed, a_prompts, a_parsed>>
    /\ UNCHANGED <<cycleVars, serverVars, feedbackVars, logVars>>

\* Lines 436-477: the first pass; a raise goes to the handler at line 476.
AllocParseFirst ==
    /\ a_pc = "first"
    /\ LET allocations == FirstPass(a_response)
       IN  IF allocations.none
           THEN /\ a_first' = "failed"
                /\ a_pc' = "repair"
                /\ UNCHANGED a_parsed
           ELSE /\ a_first' = "ok"
                /\ a_parsed' = allocations
                /\ a_pc' = "validate"
    /\ UNCHANGED <<usd_size, max_pct, alloc_replies, a_response, a_fixed, a_prompts, a_out>>
    /\ UNCHANGED <<cycleVars, serverVars, feedbackVars, logVars>>

\* Lines 478-537: the repair prompt and the pass on its reply; whatever
\* raises there is caught at line 535 and the parser returns None.
AllocRepair ==
    /\ a_pc = "repair"
    /\ \E fix_message \in {ModelRaises}
                          \cup {Reply(sh, r) : sh \in ContentShapes, r \in alloc_replies} :
          /\ a_prompts' = a_prompts + 1
          /\ a_fixed' = fix_message
          /\ a_parsed' = IF fix_message.raised THEN NoneValue
                         ELSE RepairPass(fix_message)
    /\ a_pc' = "validate"
    /\ UNCHANGED <<usd_size, max_pct, alloc_replies, a_response, a_first, a_out>>
    /\ UNCHANGED <<cycleVars, serverVars, feedbackVars, logVars>>

\* Lines 322-345: the caller's checks on what the parser returned.
AllocValidate ==
    /\ a_pc = "validate"
    /\ a_out' = ValidateAllocation(a_parsed, usd_size)
    /\ a_pc' = "returned"
    /\ UNCHANGED <<usd_size, max_pct, alloc_replies, a_response, a_first, a_fixed,
                   a_prompts, a_parsed>>
    /\ UNCHANGED <<cycleVars, serverVars, feedbackVars, logVars>>

AllocStep ==
    \/ AllocWallet
    \/ AllocPrompt
    \/ AllocParseFirst
    \/ AllocRepair
    \/ AllocValidate

----------------------------------------------------------------------------
(* analyze_market_data.                                                    *)

\* One line of a reply: its text, whether "confidence" is in line.lower(),
\* and its digit characters in order.
Line(text, conf, digits) == [text |-> text, conf |-> conf, digits |-> digits]

\* response.split("\n"): the empty string splits into one empty line.
Split(response) == IF response = <<>> THEN <<Line("", FALSE, <<>>)>> ELSE response

\* str.strip() of a line's text.
StripText(text) ==
    CASE text = " BUY " -> "BUY"
      [] text = "SELL " -> "SELL"
      [] OTHER -> text

\* int("".join(filter(str.isdigit, line))) for a line that has digits.
RECURSIVE IntOfDigits(_)
IntOfDigits(digits) ==
    IF digits = <<>> THEN 0
    ELSE 10 * IntOfDigits(SubSeq(digits, 1, Len(digits) - 1)) + digits[Len(digits)]

\* The scan without the default of line 226: a matching line without digits
\* leaves confidence as it is.
RECURSIVE ScanConfidence_NoDefault(_, _)
ScanConfidence_NoDefault(lines, confidence) ==
    IF lines = <<>> THEN confidence
    ELSE ScanConfidence_NoDefault(Tail(lines),
             IF Head(lines).conf /\ Head(lines).digits # <<>>
             THEN IntOfDigits(Head(lines).digits)
             ELSE confidence)

\* The scan with a break after the first matching line.
RECURSIVE ScanConfidence_FirstWins(_, _)
ScanConfidence_FirstWins(lines, confidence) ==
    IF lines = <<>> THEN confidence
    ELSE IF Head(lines).conf
    THEN IF Head(lines).digits = <<>> THEN 50 ELSE IntOfDigits(Head(lines).digits)
    ELSE ScanConfidence_FirstWins(Tail(lines), confidence)

\* Lines 219-226: every line holding "confidence" sets confidence, in order.
RECURSIVE ScanConfidence(_, _)
ScanConfidence(lines, confidence) ==
    IF lines = <<>> THEN confidence
    ELSE ScanConfidence(Tail(lines),
             IF Head(lines).conf
             THEN IF Head(lines).digits = <<>> THEN 50 ELSE IntOfDigits(Head(lines).digits)
             ELSE confidence)

RECURSIVE Texts(_)
Texts(lines) == IF lines = <<>> THEN <<>> ELSE <<Head(lines).text>> \o Texts(Tail(lines))

Row(token, action, confidence, reasoning, st) ==
    [token |-> token, action |-> action, confidence |-> confidence,
     reasoning |-> reasoning, status |-> st]

\* Lines 258-275: the row the handler appends.
FallbackRow(token) == Row(token, "NOTHING", 0, <<"Error during analysis">>, "pending")

\* What the model call of analyze_market_data gives: it raises, its content
\* cannot be split into lines, or it is text.
AnalysisRaises == [kind |-> "raises", lines |-> <<>>]

AnalysisMalformed == [kind |-> "malformed", lines |-> <<>>]

AnalysisText(lines) == [kind |-> "text", lines |-> lines]

analyze_market_data_NoFallbackRow(token, outcome) ==
    IF token \in EXCLUDED_TOKENS THEN [rows |-> <<>>, failed |-> FALSE]
    ELSE IF outcome.kind # "text" THEN [rows |-> <<>>, failed |-> TRUE]
    ELSE LET lines == Split(outcome.lines)
         IN  [rows |-> <<Row(token, StripText(lines[1].text), ScanConfidence(lines, 0),
                            Texts(Tail(lines)), "pending")>>,
              failed |-> FALSE]

\* analyze_market_data(token, market_data): the rows it appends and whether
\* its handler ran.
analyze_market_data(token, outcome) ==
    IF token \in EXCLUDED_TOKENS THEN [rows |-> <<>>, failed |-> FALSE]
    ELSE IF outcome.kind # "text" THEN [rows |-> <<FallbackRow(token)>>, failed |-> TRUE]
    ELSE LET lines == Split(outcome.lines)
             action == IF lines # <<>> THEN StripText(lines[1].text) ELSE "NOTHING"
             confidence == ScanConfidence(lines, 0)
             reasoning == IF Len(lines) > 1 THEN Texts(Tail(lines))
                          ELSE <<"No detailed reasoning provided">>
         IN  [rows |-> <<Row(token, action, confidence, reasoning, "pending")>>,
              failed |-> FALSE]

----------------------------------------------------------------------------
(* The loop thread of one agent: run, stop, _run_trading_cycle.            *)

\* How many end-of-cycle sleeps may run out.
MaxWakes == 1

\* What n.get_token_balance_usd may return.
Positions == {0, 1, 2}

\* An entry also for a position that is at its target.
EntryNeeded_AtTarget(current_position, target_allocation) ==
    current_position <= target_allocation

\* Line 371: if current_position < target_allocation
EntryNeeded(current_position, target_allocation) ==
    current_position < target_allocation

\* What is kept of a call of a trading collaborator.  spent is the sum of the
\* amounts handed to n.ai_entry so far in one call of execute_allocations.
NoCall == [at |-> 0, token |-> "", looked |-> FALSE, position |-> 0, calls |-> 0,
           raised |-> FALSE, amount |-> 0, spent |-> 0]

NoAnalysis == [at |-> 0, token |-> "", failed |-> FALSE]

CsvAbsent == [exists |-> FALSE, rows |-> <<>>]

CsvOf(rows) == [exists |-> TRUE, rows |-> rows]

allocLocals == <<a_response, a_first, a_fixed, a_prompts, a_parsed, a_out>>

config == <<usd_size, max_pct, alloc_replies, analysis_replies, wallet, serverVars,
            feedbackVars, logVars>>

\* stop() without the test of self.tid.
Stop_Unconditional ==
    /\ pc # "none"
    /\ stop' = TRUE
    /\ stop_when' = IF stop THEN stop_when
                    ELSE IF ~tid THEN "ignored"
                    ELSE IF status = "trading" THEN "iteration"
                    ELSE IF status = "initialized" THEN "early"
                    ELSE "late"
    /\ UNCHANGED <<status, tid, pc, MONITORED_TOKENS, market_data, idx, recommendations_df,
                   csv, iter_logs, allocation, remaining, wakes, last_analysis, last_exit,
                   last_entry, a_pc>>
    /\ UNCHANGED <<allocLocals, config>>

\* TradingAgent.stop
Stop ==
    /\ pc # "none"
    /\ stop' = IF tid THEN TRUE ELSE stop
    /\ stop_when' = IF stop THEN stop_when
                    ELSE IF ~tid THEN "ignored"
                    ELSE IF status = "trading" THEN "iteration"
                    ELSE IF status = "initialized" THEN "early"
                    ELSE "late"
    /\ UNCHANGED <<status, tid, pc, MONITORED_TOKENS, market_data, idx, recommendations_df,
                   csv, iter_logs, allocation, remaining, wakes, last_analysis, last_exit,
                   last_entry, a_pc>>
    /\ UNCHANGED <<allocLocals, config>>

\* run(), line 624, right-hand side: the decorator starts the thread.
RunStartsThread ==
    /\ pc = "new"
    /\ pc' = "spawned"
    /\ UNCHANGED <<status, stop, tid, MONITORED_TOKENS, market_data, idx, recommendations_df,
                   csv, iter_logs, allocation, remaining, wakes, last_analysis, last_exit,
                   last_entry, a_pc>>
    /\ UNCHANGED <<allocLocals, config, stop_when>>

\* run(), line 624, the assignment: self.tid holds the thread.
RunStoresTid ==
    /\ pc \notin {"none", "new"}
    /\ ~tid
    /\ tid' = TRUE
    /\ UNCHANGED <<status, stop, pc, MONITORED_TOKENS, market_data, idx, recommendations_df,
                   csv, iter_logs, allocation, remaining, wakes, last_analysis, last_exit,
                   last_entry, a_pc>>
    /\ UNCHANGED <<allocLocals, config, stop_when>>

\* Line 628: the wallet's tokens are looked up before the loop; a raise
\* there ends the thread.
ResolveTokens ==
    /\ pc = "spawned"
    /\ \E raises \in BOOLEAN :
          IF raises
          THEN pc' = "dead" /\ UNCHANGED MONITORED_TOKENS
          ELSE pc' = "top" /\ MONITORED_TOKENS' = wallet
    /\ UNCHANGED <<status, stop, tid, market_data, idx, recommendations_df,
                   csv, iter_logs, allocation, remaining, wakes, last_analysis, last_exit,
                   last_entry, a_pc>>
    /\ UNCHANGED <<allocLocals, config, stop_when>>

\* The loop condition without the stop flag.
LoopCheck_IgnoresStop ==
    /\ pc = "top"
    /\ pc' = "try"
    /\ UNCHANGED <<status, stop, tid, MONITORED_TOKENS, market_data, idx, recommendations_df,
                   csv, iter_logs, allocation, remaining, wakes, last_analysis, last_exit,
                   last_entry, a_pc>>
    /\ UNCHANGED <<allocLocals, config, stop_when>>

\* Line 631: while not self.__stop
LoopCheck ==
    /\ pc = "top"
    /\ pc' = IF stop THEN "exited" ELSE "try"
    /\ UNCHANGED <<status, stop, tid, MONITORED_TOKENS, market_data, idx, recommendations_df,
                   csv, iter_logs, allocation, remaining, wakes, last_analysis, last_exit,
                   last_entry, a_pc>>
    /\ UNCHANGED <<allocLocals, config, stop_when>>

BeginIteration_KeepsStatus ==
    /\ pc = "try"
    /\ iter_logs' = <<"start">>
    /\ pc' = "collect"
    /\ UNCHANGED <<status, stop, tid, MONITORED_TOKENS, market_data, idx, recommendations_df,
                   csv, allocation, remaining, wakes, last_analysis, last_exit,
                   last_entry, a_pc>>
    /\ UNCHANGED <<allocLocals, config, stop_when>>

\* Lines 633-637: the iteration begins.
BeginIteration ==
    /\ pc = "try"
    /\ status' = "trading"
    /\ iter_logs' = <<"start">>
    /\ pc' = "collect"
    /\ UNCHANGED <<stop, tid, MONITORED_TOKENS, market_data, idx, recommendations_df,
                   csv, allocation, remaining, wakes, last_analysis, last_exit,
                   last_entry, a_pc>>
    /\ UNCHANGED <<allocLocals, config, stop_when>>

\* Lines 640-641: collect_all_tokens keeps the tokens whose data could be fetched.
Collect ==
    /\ pc = "collect"
    /\ \E have \in SUBSET {MONITORED_TOKENS[i] : i \in 1..Len(MONITORED_TOKENS)} :
          market_data' = SelectSeq(MONITORED_TOKENS, LAMBDA t : t \in have)
    /\ idx' = 1
    /\ pc' = "analyze"
    /\ UNCHANGED <<status, stop, tid, MONITORED_TOKENS, recommendations_df,
                   csv, iter_logs, allocation, remaining, wakes, last_analysis, last_exit,
                   last_entry, a_pc>>
    /\ UNCHANGED <<allocLocals, config, stop_when>>

\* Lines 644-660: one token of the analysis loop.
Analyze ==
    /\ pc = "analyze"
    /\ idx <= Len(market_data)
    /\ \E outcome \in {AnalysisRaises, AnalysisMalformed}
                      \cup {AnalysisText(r) : r \in analysis_replies} :
          LET token == market_data[idx]
              done  == analyze_market_data(token, outcome)
          IN  /\ recommendations_df' = recommendations_df \o done.rows
              /\ last_analysis' = [at |-> idx, token |-> token, failed |-> done.failed]
    /\ idx' = idx + 1
    /\ UNCHANGED <<status, stop, tid, pc, MONITORED_TOKENS, market_data,
                   csv, iter_logs, allocation, remaining, wakes, last_exit,
                   last_entry, a_pc>>
    /\ UNCHANGED <<allocLocals, config, stop_when>>

Summary_ChecksStop ==
    /\ pc = "analyze"
    /\ idx > Len(market_data)
    /\ pc' = IF stop THEN "finally" ELSE "exits"
    /\ idx' = 1
    /\ last_analysis' = NoAnalysis
    /\ UNCHANGED <<status, stop, tid, MONITORED_TOKENS, market_data, recommendations_df,
                   csv, iter_logs, allocation, remaining, wakes, last_exit,
                   last_entry, a_pc>>
    /\ UNCHANGED <<allocLocals, config, stop_when>>

\* Lines 662-670: the summary is logged and handle_exits is entered.
Summary ==
    /\ pc = "analyze"
    /\ idx > Len(market_data)
    /\ pc' = "exits"
    /\ idx' = 1
    /\ last_analysis' = NoAnalysis
    /\ UNCHANGED <<status, stop, tid, MONITORED_TOKENS, market_data, recommendations_df,
                   csv, iter_logs, allocation, remaining, wakes, last_exit,
                   last_entry, a_pc>>
    /\ UNCHANGED <<allocLocals, config, stop_when>>

SetStatus(df, index, st) == [df EXCEPT ![index].status = st]

StatusAfterExit_AlwaysExecuted(kill_raises) == "executed"

\* Lines 414-423: the status a row takes once chunk_kill has returned or raised.
StatusAfterExit(kill_raises) == IF kill_raises THEN "failed" ELSE "executed"

\* Lines 393-430: one row of handle_exits.  A raise of the balance lookup
\* leaves handle_exits and is caught at line 704.
ExitRow ==
    /\ pc = "exits"
    /\ idx <= Len(recommendations_df)
    /\ LET row == recommendations_df[idx]
       IN  IF row.token \in EXCLUDED_TOKENS \/ row.status # "pending"
           THEN /\ last_exit' = [NoCall EXCEPT !.at = idx, !.token = row.token]
                /\ idx' = idx + 1
                /\ UNCHANGED <<recommendations_df, pc>>
           ELSE \E lookup_raises \in BOOLEAN, current_position \in Positions,
                   kill_raises \in BOOLEAN :
                  IF lookup_raises
                  THEN /\ current_position = 0 /\ ~kill_raises
                       /\ last_exit' = [NoCall EXCEPT !.at = idx, !.token = row.token,
                                                      !.raised = TRUE]
                       /\ pc' = "except"
                       /\ UNCHANGED <<recommendations_df, idx>>
                  ELSE IF current_position > 0 /\ row.action \in {"SELL"}
                  THEN /\ recommendations_df' =
                              SetStatus(recommendations_df, idx, StatusAfterExit(kill_raises))
                       /\ last_exit' = [at |-> idx, token |-> row.token, looked |-> TRUE,
                                        position |-> current_position, calls |-> 1,
                                        raised |-> kill_raises, amount |-> 0,
                                        spent |-> 0]
                       /\ idx' = idx + 1
                       /\ UNCHANGED pc
                  ELSE /\ ~kill_raises
                       /\ recommendations_df' =
                              IF current_position > 0
                              THEN SetStatus(recommendations_df, idx, "executed")
                              ELSE recommendations_df
                       /\ last_exit' = [NoCall EXCEPT !.at = idx, !.token = row.token,
                                                      !.looked = TRUE,
                                                      !.position = current_position]
                       /\ idx' = idx + 1
                       /\ UNCHANGED pc
    /\ UNCHANGED <<status, stop, tid, MONITORED_TOKENS, market_data,
                   csv, iter_logs, allocation, remaining, wakes, last_analysis,
                   last_entry, a_pc>>
    /\ UNCHANGED <<allocLocals, config, stop_when>>

\* Lines 672-678: handle_exits has returned and allocate_portfolio is called.
CallAllocate ==
    /\ pc = "exits"
    /\ idx > Len(recommendations_df)
    /\ pc' = "allocate"
    /\ a_pc' = "wallet"
    /\ last_exit' = NoCall
    /\ UNCHANGED <<status, stop, tid, MONITORED_TOKENS, market_data, idx, recommendations_df,
                   csv, iter_logs, allocation, remaining, wakes, last_analysis,
                   last_entry>>
    /\ UNCHANGED <<allocLocals, config, stop_when>>

ClearAllocLocals ==
    /\ a_response' = <<>>
    /\ a_first' = "-"
    /\ a_fixed' = NoReply
    /\ a_prompts' = 0
    /\ a_parsed' = NoneValue
    /\ a_out' = NoneValue

\* Lines 678-690: allocate_portfolio has returned.
AllocateReturns ==
    /\ pc = "allocate"
    /\ a_pc = "returned"
    /\ allocation' = a_out
    /\ remaining' = DOMAIN a_out.map
    /\ pc' = IF a_out.none \/ DOMAIN a_out.map = {} THEN "cleanup" ELSE "execute"
    /\ a_pc' = "idle"
    /\ ClearAllocLocals
    /\ UNCHANGED <<status, stop, tid, MONITORED_TOKENS, market_data, idx, recommendations_df,
                   csv, iter_logs, wakes, last_analysis, last_exit, last_entry>>
    /\ UNCHANGED <<config, stop_when>>

\* The wallet lookup of allocate_portfolio raised: caught at line 704.
AllocateEscapes ==
    /\ pc = "allocate"
    /\ a_pc = "escaped"
    /\ pc' = "except"
    /\ a_pc' = "idle"
    /\ ClearAllocLocals
    /\ UNCHANGED <<status, stop, tid, MONITORED_TOKENS, market_data, idx, recommendations_df,
                   csv, iter_logs, allocation, remaining, wakes, last_analysis, last_exit,
                   last_entry>>
    /\ UNCHANGED <<config, stop_when>>

\* Lines 356-383: one key of execute_allocations.  What the balance lookup
\* or the entry raises is caught at line 379.  No position is below a target
\* of nan.
ExecuteKey ==
    /\ pc = "execute"
    /\ \E token \in remaining :
          LET amount == allocation.map[token].n
              spent  == last_entry.spent
          IN  /\ remaining' = remaining \ {token}
              /\ IF token \in EXCLUDED_TOKENS
                 THEN last_entry' = [NoCall EXCEPT !.token = token, !.spent = spent]
                 ELSE \E lookup_raises \in BOOLEAN, current_position \in Positions,
                         entry_raises \in BOOLEAN :
                        IF lookup_raises
                        THEN /\ current_position = 0 /\ ~entry_raises
                             /\ last_entry' = [NoCall EXCEPT !.token = token,
                                                             !.raised = TRUE,
                                                             !.spent = spent]
                        ELSE IF /\ allocation.map[token].kind # "nan"
                                /\ EntryNeeded(current_position, amount)
                        THEN last_entry' = [at |-> 0, token |-> token, looked |-> TRUE,
                                            position |-> current_position, calls |-> 1,
                                            raised |-> entry_raises, amount |-> amount,
                                            spent |-> spent + amount]
                        ELSE /\ ~entry_raises
                             /\ last_entry' = [NoCall EXCEPT !.token = token,
                                                             !.looked = TRUE,
                                                             !.position = current_position,
                                                             !.spent = spent]
    /\ UNCHANGED <<status, stop, tid, pc, MONITORED_TOKENS, market_data, idx,
                   recommendations_df, csv, iter_logs, allocation, wakes, last_analysis,
                   last_exit, a_pc>>
    /\ UNCHANGED <<allocLocals, config, stop_when>>

\* handle_exits called once more after execute_allocations.
ExecuteDone_ExitsAgain ==
    /\ pc = "execute"
    /\ remaining = {}
    /\ pc' = "exits"
    /\ idx' = 1
    /\ last_entry' = NoCall
    /\ UNCHANGED <<status, stop, tid, MONITORED_TOKENS, market_data, recommendations_df,
                   csv, iter_logs, allocation, remaining, wakes, last_analysis, last_exit,
                   a_pc>>
    /\ UNCHANGED <<allocLocals, config, stop_when>>

\* Line 688: execute_allocations has returned.
ExecuteDone ==
    /\ pc = "execute"
    /\ remaining = {}
    /\ pc' = "cleanup"
    /\ last_entry' = NoCall
    /\ UNCHANGED <<status, stop, tid, MONITORED_TOKENS, market_data, idx, recommendations_df,
                   csv, iter_logs, allocation, remaining, wakes, last_analysis, last_exit,
                   a_pc>>
    /\ UNCHANGED <<allocLocals, config, stop_when>>

\* Lines 692-702: the scratch files are removed; a failure is logged.
Cleanup ==
    /\ pc = "cleanup"
    /\ \E fails \in BOOLEAN :
          iter_logs' = Append(iter_logs, IF fails THEN "cleanup_error" ELSE "cleaned")
    /\ pc' = "finally"
    /\ allocation' = NoneValue
    /\ UNCHANGED <<status, stop, tid, MONITORED_TOKENS, market_data, idx, recommendations_df,
                   csv, remaining, wakes, last_analysis, last_exit, last_entry, a_pc>>
    /\ UNCHANGED <<allocLocals, config, stop_when>>

HandleError_Reraises ==
    /\ pc = "except"
    /\ pc' = "dead"
    /\ UNCHANGED <<status, stop, tid, MONITORED_TOKENS, market_data, idx, recommendations_df,
                   csv, iter_logs, allocation, remaining, wakes, last_analysis, last_exit,
                   last_entry, a_pc>>
    /\ UNCHANGED <<allocLocals, config, stop_when>>

\* Lines 704-710: the handler of the iteration.
HandleError ==
    /\ pc = "except"
    /\ iter_logs' = iter_logs \o <<"error", "suggestion">>
    /\ pc' = "finally"
    /\ last_analysis' = NoAnalysis
    /\ last_exit' = NoCall
    /\ last_entry' = NoCall
    /\ allocation' = NoneValue
    /\ remaining' = {}
    /\ UNCHANGED <<status, stop, tid, MONITORED_TOKENS, market_data, idx, recommendations_df,
                   csv, wakes, a_pc>>
    /\ UNCHANGED <<allocLocals, config, stop_when>>

Finally_KeepsStatus ==
    /\ pc = "finally"
    /\ csv' = CsvOf(recommendations_df)
    /\ iter_logs' = Append(iter_logs, "snapshot")
    /\ pc' = "after"
    /\ UNCHANGED <<status, stop, tid, MONITORED_TOKENS, market_data, idx, recommendations_df,
                   allocation, remaining, wakes, last_analysis, last_exit, last_entry, a_pc>>
    /\ UNCHANGED <<allocLocals, config, stop_when>>

\* Lines 711-716: the finally block.
Finally ==
    /\ pc = "finally"
    /\ csv' = CsvOf(recommendations_df)
    /\ iter_logs' = Append(iter_logs, "snapshot")
    /\ status' = "sleeping"
    /\ pc' = "after"
    /\ UNCHANGED <<stop, tid, MONITORED_TOKENS, market_data, idx, recommendations_df,
                   allocation, remaining, wakes, last_analysis, last_exit, last_entry, a_pc>>
    /\ UNCHANGED <<allocLocals, config, stop_when>>

\* Lines 718-725: the next run is announced; the sleep is entered unless
\* stop was requested.
AfterIteration ==
    /\ pc = "after"
    /\ iter_logs' = Append(iter_logs, "next_run")
    /\ pc' = IF ~stop THEN "sleep" ELSE "top"
    /\ UNCHANGED <<status, stop, tid, MONITORED_TOKENS, market_data, idx, recommendations_df,
                   csv, allocation, remaining, wakes, last_analysis, last_exit, last_entry,
                   a_pc>>
    /\ UNCHANGED <<allocLocals, config, stop_when>>

\* Line 725: time.sleep returns.
Wake ==
    /\ pc = "sleep"
    /\ wakes < MaxWakes
    /\ wakes' = wakes + 1
    /\ pc' = "top"
    /\ UNCHANGED <<status, stop, tid, MONITORED_TOKENS, market_data, idx, recommendations_df,
                   csv, iter_logs, allocation, remaining, last_analysis, last_exit,
                   last_entry, a_pc>>
    /\ UNCHANGED <<allocLocals, config, stop_when>>

\* Line 725 once more: time.sleep returns however many sleeps have run out;
\* with the stop flag set the loop condition that follows ends the loop.
WakeStopped ==
    /\ pc = "sleep"
    /\ stop
    /\ pc' = "top"
    /\ UNCHANGED <<status, stop, tid, MONITORED_TOKENS, market_data, idx, recommendations_df,
                   csv, iter_logs, allocation, remaining, wakes, last_analysis, last_exit,
                   last_entry, a_pc>>
    /\ UNCHANGED <<allocLocals, config, stop_when>>

LoopStep ==
    \/ ResolveTokens
    \/ LoopCheck
    \/ BeginIteration
    \/ Collect
    \/ Analyze
    \/ Summary
    \/ ExitRow
    \/ CallAllocate
    \/ AllocStep
    \/ AllocateReturns
    \/ AllocateEscapes
    \/ ExecuteKey
    \/ ExecuteDone
    \/ Cleanup
    \/ HandleError
    \/ Finally
    \/ AfterIteration
    \/ Wake

NextCycle ==
    \/ RunStartsThread
    \/ RunStoresTid
    \/ Stop
    \/ LoopStep

----------------------------------------------------------------------------
(* The control surface: run_trading_cycle, update_agent, and the loop      *)
(* threads of the agents it creates.  Here an iteration's body is one step *)
(* that completes or raises: what it does to the ledger is SpecCycle's.    *)

\* How many run_cycle requests are made.
MaxRequests == 2

Requests == 1..MaxRequests

Agents == 1..MaxRequests

RunIds == {"r1", "r2"}

\* POST /run_cycle without a run id: the handler's local agent is unbound,
\* agent.run() raises, and the answer is Error.
RunCycleNoRunId(r) ==
    /\ req_pc[r] = "idle"
    /\ req_pc' = [req_pc EXCEPT ![r] = "error"]
    /\ UNCHANGED <<agent, created, s_run_id, s_status, s_stop, s_tid, s_pc, s_wakes,
                   req_agent>>
    /\ UNCHANGED <<allocVars, cycleVars, feedbackVars, logVars>>

\* update_agent, lines 56-57: the agent at hand is asked to stop.
UpdateAgentStops(r) ==
    /\ req_pc[r] = "idle"
    /\ req_pc' = [req_pc EXCEPT ![r] = "construct"]
    /\ s_stop' = IF agent # 0 /\ s_tid[agent]
                 THEN [s_stop EXCEPT ![agent] = TRUE]
                 ELSE s_stop
    /\ UNCHANGED <<agent, created, s_run_id, s_status, s_tid, s_pc, s_wakes, req_agent>>
    /\ UNCHANGED <<allocVars, cycleVars, feedbackVars, logVars>>

\* update_agent, line 58: a new agent is set up and becomes the global one.
UpdateAgentConstructs(r) ==
    /\ req_pc[r] = "construct"
    /\ \E run_id \in RunIds :
          LET new == created + 1
          IN  /\ created' = new
              /\ s_run_id' = [s_run_id EXCEPT ![new] = run_id]
              /\ s_status' = [s_status EXCEPT ![new] = "initialized"]
              /\ agent' = new
              /\ req_agent' = [req_agent EXCEPT ![r] = new]
    /\ req_pc' = [req_pc EXCEPT ![r] = "run"]
    /\ UNCHANGED <<s_stop, s_tid, s_pc, s_wakes>>
    /\ UNCHANGED <<allocVars, cycleVars, feedbackVars, logVars>>

\* agent.run(): the thread is started.
RunCycleStartsThread(r) ==
    /\ req_pc[r] = "run"
    /\ s_pc' = [s_pc EXCEPT ![req_agent[r]] = "spawned"]
    /\ req_pc' = [req_pc EXCEPT ![r] = "store"]
    /\ UNCHANGED <<agent, created, s_run_id, s_status, s_stop, s_tid, s_wakes, req_agent>>
    /\ UNCHANGED <<allocVars, cycleVars, feedbackVars, logVars>>

\* agent.run(): self.tid holds the thread, and the answer is Started.
RunCycleStoresTid(r) ==
    /\ req_pc[r] = "store"
    /\ s_tid' = [s_tid EXCEPT ![req_agent[r]] = TRUE]
    /\ req_pc' = [req_pc EXCEPT ![r] = "started"]
    /\ UNCHANGED <<agent, created, s_run_id, s_status, s_stop, s_pc, s_wakes, req_agent>>
    /\ UNCHANGED <<allocVars, cycleVars, feedbackVars, logVars>>

\* One step of the loop thread of agent a (_run_trading_cycle, lines 628-725).
AgentResolveTokens(a) ==
    /\ s_pc[a] = "spawned"
    /\ \E raises \in BOOLEAN :
          s_pc' = [s_pc EXCEPT ![a] = IF raises THEN "dead" ELSE "top"]
    /\ UNCHANGED <<agent, created, s_run_id, s_status, s_stop, s_tid, s_wakes, req_pc,
                   req_agent>>
    /\ UNCHANGED <<allocVars, cycleVars, feedbackVars, logVars>>

AgentLoopCheck(a) ==
    /\ s_pc[a] = "top"
    /\ s_pc' = [s_pc EXCEPT ![a] = IF s_stop[a] THEN "exited" ELSE "try"]
    /\ UNCHANGED <<agent, created, s_run_id, s_status, s_stop, s_tid, s_wakes, req_pc,
                   req_agent>>
    /\ UNCHANGED <<allocVars, cycleVars, feedbackVars, logVars>>

AgentBeginIteration(a) ==
    /\ s_pc[a] = "try"
    /\ s_status' = [s_status EXCEPT ![a] = "trading"]
    /\ s_pc' = [s_pc EXCEPT ![a] = "body"]
    /\ UNCHANGED <<agent, created, s_run_id, s_stop, s_tid, s_wakes, req_pc, req_agent>>
    /\ UNCHANGED <<allocVars, cycleVars, feedbackVars, logVars>>

\* Lines 639-710: the body runs to its end, or raises and the handler runs.
AgentBody(a) ==
    /\ s_pc[a] = "body"
    /\ s_pc' = [s_pc EXCEPT ![a] = "finally"]
    /\ UNCHANGED <<agent, created, s_run_id, s_status, s_stop, s_tid, s_wakes, req_pc,
                   req_agent>>
    /\ UNCHANGED <<allocVars, cycleVars, feedbackVars, logVars>>

AgentFinally(a) ==
    /\ s_pc[a] = "finally"
    /\ s_status' = [s_status EXCEPT ![a] = "sleeping"]
    /\ s_pc' = [s_pc EXCEPT ![a] = "after"]
    /\ UNCHANGED <<agent, created, s_run_id, s_stop, s_tid, s_wakes, req_pc, req_agent>>
    /\ UNCHANGED <<allocVars, cycleVars, feedbackVars, logVars>>

AgentAfterIteration(a) ==
    /\ s_pc[a] = "after"
    /\ s_pc' = [s_pc EXCEPT ![a] = IF ~s_stop[a] THEN "sleep" ELSE "top"]
    /\ UNCHANGED <<agent, created, s_run_id, s_status, s_stop, s_tid, s_wakes, req_pc,
                   req_agent>>
    /\ UNCHANGED <<allocVars, cycleVars, feedbackVars, logVars>>

AgentWake(a) ==
    /\ s_pc[a] = "sleep"
    /\ s_wakes < MaxWakes
    /\ s_wakes' = s_wakes + 1
    /\ s_pc' = [s_pc EXCEPT ![a] = "top"]
    /\ UNCHANGED <<agent, created, s_run_id, s_status, s_stop, s_tid, req_pc, req_agent>>
    /\ UNCHANGED <<allocVars, cycleVars, feedbackVars, logVars>>

NextServer ==
    \/ \E r \in Requests :
          \/ RunCycleNoRunId(r)
          \/ UpdateAgentStops(r)
          \/ UpdateAgentConstructs(r)
          \/ RunCycleStartsThread(r)
          \/ RunCycleStoresTid(r)
    \/ \E a \in Agents :
          \/ AgentResolveTokens(a)
          \/ AgentLoopCheck(a)
          \/ AgentBeginIteration(a)
          \/ AgentBody(a)
          \/ AgentFinally(a)
          \/ AgentAfterIteration(a)
          \/ AgentWake(a)

----------------------------------------------------------------------------
(* process_user_input, and the loop thread of the same agent beside it.    *)
(* Both work on self.recommendations_df and self.logs without a lock; the  *)
(* mutex of save_logs guards the log file only.                            *)

\* How many entries the loop thread appends to self.logs beside a feedback call.
MaxCycleLogs == 2

\* One entry of self.logs: its role, the thread that appended it, what it says.
Entry(role, by, message) == [role |-> role, by |-> by, message |-> message]

\* dict.get(key, default)
Get(obj, key, default) == IF key \in DOMAIN obj THEN obj[key] ELSE default

\* The default of recommendation.get("action", None).
None == "(None)"

\* bool(action): None and the empty string are false.
Truthy(action) == action \notin {None, ""}

\* What the model call of process_user_input gives: it raises, its text is
\* not JSON, its text is JSON that is no object (a non-empty list), or its
\* text decodes to an object.
FeedbackRaises == [kind |-> "raises", obj |-> EmptyMap]

FeedbackNotJson == [kind |-> "notjson", obj |-> EmptyMap]

FeedbackList == [kind |-> "list", obj |-> EmptyMap]

FeedbackObject(obj) == [kind |-> "object", obj |-> obj]

NoRecommendation == FeedbackObject(EmptyMap)

\* new_row with the defaults of analyze_market_data's handler in the place of
\* those of lines 596-599.
NewRow_HandlerDefaults(obj) ==
    Row(Get(obj, "token", "ALL"), Get(obj, "action", None), Get(obj, "confidence", 0),
        Get(obj, "reasoning", <<"Error during analysis">>), "NaN")

\* Lines 596-606: new_row.  It has no status; pd.concat fills the column
\* with NaN for it.
NewRow(obj) ==
    Row(Get(obj, "token", "ALL"), Get(obj, "action", None), Get(obj, "confidence", 100),
        Get(obj, "reasoning", <<"User provided recommendation.">>), "NaN")

\* What a feedback call leaves alone outside the ledger and the log.
ledgerRest == <<status, stop, tid, pc, wallet, MONITORED_TOKENS, market_data, idx, csv,
                iter_logs, allocation, remaining, wakes, analysis_replies, last_analysis,
                last_exit, last_entry, stop_when>>

agentRest == <<allocVars, ledgerRest, serverVars, logVars>>

\* Line 540: get_wallet_owned_tokens, before the try.  When it raises the
\* exception leaves process_user_input.
FeedbackWallet ==
    /\ f_pc = "call"
    /\ \E raises \in BOOLEAN : f_pc' = IF raises THEN "raised" ELSE "try"
    /\ UNCHANGED <<logs, feedback_replies, log_length, recommendation, f_frame, f_return,
                   c_pc, c_todo, c_frame, c_idx, c_logs>>
    /\ UNCHANGED <<agentRest, recommendations_df>>

\* Line 547: log_length = len(self.logs)
FeedbackBegins ==
    /\ f_pc = "try"
    /\ log_length' = Len(logs)
    /\ f_pc' = "user"
    /\ UNCHANGED <<logs, feedback_replies, recommendation, f_frame, f_return,
                   c_pc, c_todo, c_frame, c_idx, c_logs>>
    /\ UNCHANGED <<agentRest, recommendations_df>>

\* Line 548: self.log(user_input, role="user")
FeedbackLogsUser ==
    /\ f_pc = "user"
    /\ logs' = Append(logs, Entry("user", "feedback", "user_input"))
    /\ f_pc' = "collect"
    /\ UNCHANGED <<feedback_replies, log_length, recommendation, f_frame, f_return,
                   c_pc, c_todo, c_frame, c_idx, c_logs>>
    /\ UNCHANGED <<agentRest, recommendations_df>>

\* Lines 550-551: collect_all_tokens, which logs through self.log and keeps
\* to itself what fetching a token's data raises.
FeedbackCollects ==
    /\ f_pc = "collect"
    /\ logs' = logs \o << Entry("assistant", "feedback", "collecting"),
                          Entry("assistant", "feedback", "collected") >>
    /\ f_pc' = "model"
    /\ UNCHANGED <<feedback_replies, log_length, recommendation, f_frame, f_return,
                   c_pc, c_todo, c_frame, c_idx, c_logs>>
    /\ UNCHANGED <<agentRest, recommendations_df>>

\* Lines 552-592: the model call, the two entries on its answer, json.loads.
\* A raise of the call or of json.loads goes to the handler at line 614.
FeedbackModel ==
    /\ f_pc = "model"
    /\ \E message \in {FeedbackRaises} \cup feedback_replies :
          /\ recommendation' = message
          /\ IF message.kind = "raises"
             THEN f_pc' = "except" /\ UNCHANGED logs
             ELSE /\ logs' = logs \o << Entry("assistant", "feedback", "structured"),
                                        Entry("assistant", "feedback", "response") >>
                  /\ f_pc' = IF message.kind = "notjson" THEN "except" ELSE "decoded"
    /\ UNCHANGED <<feedback_replies, log_length, f_frame, f_return,
                   c_pc, c_todo, c_frame, c_idx, c_logs>>
    /\ UNCHANGED <<agentRest, recommendations_df>>

\* Lines 593-613: nothing to add, a row to add, or no valid action.  A list
\* that is not empty has no get: line 596 raises.
FeedbackDecoded ==
    /\ f_pc = "decoded"
    /\ IF recommendation.kind = "list"
       THEN f_pc' = "except" /\ UNCHANGED logs
       ELSE IF DOMAIN recommendation.obj = {}
       THEN /\ logs' = Append(logs, Entry("assistant", "feedback", "no_recommendation"))
            /\ f_pc' = "finally"
       ELSE IF Truthy(Get(recommendation.obj, "action", None))
       THEN f_pc' = "concat" /\ UNCHANGED logs
       ELSE /\ logs' = Append(logs, Entry("assistant", "feedback", "no_action"))
            /\ f_pc' = "finally"
    /\ UNCHANGED <<feedback_replies, log_length, recommendation, f_frame, f_return,
                   c_pc, c_todo, c_frame, c_idx, c_logs>>
    /\ UNCHANGED <<agentRest, recommendations_df>>

\* Lines 607-610, the right-hand side: pd.concat reads the frame
\* self.recommendations_df names and copies its rows.
FeedbackConcatReads ==
    /\ f_pc = "concat"
    /\ f_frame' = recommendations_df
    /\ f_pc' = "assign"
    /\ UNCHANGED <<logs, feedback_replies, log_length, recommendation, f_return,
                   c_pc, c_todo, c_frame, c_idx, c_logs>>
    /\ UNCHANGED <<agentRest, recommendations_df>>

\* Lines 607-611, the assignment: self.recommendations_df names the new
\* frame, and the row is logged.
FeedbackConcatAssigns ==
    /\ f_pc = "assign"
    /\ recommendations_df' = f_frame \o <<NewRow(recommendation.obj)>>
    /\ logs' = Append(logs, Entry("assistant", "feedback", "added"))
    /\ f_pc' = "finally"
    /\ UNCHANGED <<feedback_replies, log_length, recommendation, f_frame, f_return,
                   c_pc, c_todo, c_frame, c_idx, c_logs>>
    /\ UNCHANGED agentRest

\* Lines 614-617: the handler.
FeedbackExcept ==
    /\ f_pc = "except"
    /\ logs' = logs \o << Entry("assistant", "feedback", "error"),
                          Entry("assistant", "feedback", "continuing") >>
    /\ f_pc' = "finally"
    /\ UNCHANGED <<feedback_replies, log_length, recommendation, f_frame, f_return,
                   c_pc, c_todo, c_frame, c_idx, c_logs>>
    /\ UNCHANGED <<agentRest, recommendations_df>>

\* Lines 618-619: return self.logs[log_length:]
FeedbackReturns ==
    /\ f_pc = "finally"
    /\ f_return' = SubSeq(logs, log_length + 1, Len(logs))
    /\ f_pc' = "returned"
    /\ UNCHANGED <<logs, feedback_replies, log_length, recommendation, f_frame,
                   c_pc, c_todo, c_frame, c_idx, c_logs>>
    /\ UNCHANGED <<agentRest, recommendations_df>>

FeedbackStep ==
    \/ FeedbackWallet
    \/ FeedbackBegins
    \/ FeedbackLogsUser
    \/ FeedbackCollects
    \/ FeedbackModel
    \/ FeedbackDecoded
    \/ FeedbackConcatReads
    \/ FeedbackConcatAssigns
    \/ FeedbackExcept
    \/ FeedbackReturns

\* The loop thread beside the call: any of its self.log calls (lines 635-720).
CycleLogs ==
    /\ c_pc \notin {"off", "done"}
    /\ c_logs < MaxCycleLogs
    /\ c_logs' = c_logs + 1
    /\ logs' = Append(logs, Entry("assistant", "cycle", "progress"))
    /\ UNCHANGED <<feedback_replies, f_pc, log_length, recommendation, f_frame, f_return,
                   c_pc, c_todo, c_frame, c_idx>>
    /\ UNCHANGED <<agentRest, recommendations_df>>

\* analyze_market_data, lines 234-250 and 260-275, the right-hand side:
\* pd.concat reads the frame self.recommendations_df names.
CycleConcatReads ==
    /\ c_pc = "analyze"
    /\ c_todo # <<>>
    /\ c_frame' = recommendations_df
    /\ c_pc' = "assign"
    /\ UNCHANGED <<logs, feedback_replies, f_pc, log_length, recommendation, f_frame,
                   f_return, c_todo, c_idx, c_logs>>
    /\ UNCHANGED <<agentRest, recommendations_df>>

\* analyze_market_data, the assignment: self.recommendations_df names the
\* new frame, which holds the row of the analysis or of its handler.
CycleConcatAssigns ==
    /\ c_pc = "assign"
    /\ \E outcome \in {AnalysisRaises} \cup {AnalysisText(r) : r \in analysis_replies} :
          recommendations_df' = c_frame \o analyze_market_data(Head(c_todo), outcome).rows
    /\ c_todo' = Tail(c_todo)
    /\ c_pc' = "analyze"
    /\ UNCHANGED <<logs, feedback_replies, f_pc, log_length, recommendation, f_frame,
                   f_return, c_frame, c_idx, c_logs>>
    /\ UNCHANGED agentRest

\* Line 393: handle_exits is entered; iterrows goes through the rows of the
\* frame self.recommendations_df names at that moment.
CycleEntersExits ==
    /\ c_pc = "analyze"
    /\ c_todo = <<>>
    /\ c_frame' = recommendations_df
    /\ c_idx' = 1
    /\ c_pc' = "exits"
    /\ UNCHANGED <<logs, feedback_replies, f_pc, log_length, recommendation, f_frame,
                   f_return, c_todo, c_logs>>
    /\ UNCHANGED <<agentRest, recommendations_df>>

\* Lines 394-423: one row of handle_exits.  The row is read from the frame
\* iterrows goes through; the status is set in the frame
\* self.recommendations_df names when line 414, 417 or 423 runs.
CycleExitRow ==
    /\ c_pc = "exits"
    /\ c_idx <= Len(c_frame)
    /\ LET row == c_frame[c_idx]
       IN  IF row.token \in EXCLUDED_TOKENS \/ row.status # "pending"
           THEN /\ c_idx' = c_idx + 1
                /\ UNCHANGED <<recommendations_df, c_pc>>
           ELSE \E lookup_raises \in BOOLEAN, current_position \in Positions,
                   kill_raises \in BOOLEAN :
                  IF lookup_raises
                  THEN /\ current_position = 0 /\ ~kill_raises
                       /\ c_pc' = "done"
                       /\ UNCHANGED <<recommendations_df, c_idx>>
                  ELSE /\ recommendations_df' =
                              IF current_position > 0 /\ row.action \in {"SELL"}
                              THEN SetStatus(recommendations_df, c_idx,
                                             StatusAfterExit(kill_raises))
                              ELSE IF current_position > 0 /\ ~kill_raises
                              THEN SetStatus(recommendations_df, c_idx, "executed")
                              ELSE recommendations_df
                       /\ (row.action \notin {"SELL"} \/ current_position = 0) => ~kill_raises
                       /\ c_idx' = c_idx + 1
                       /\ UNCHANGED c_pc
    /\ UNCHANGED <<logs, feedback_replies, f_pc, log_length, recommendation, f_frame,
                   f_return, c_todo, c_frame, c_logs>>
    /\ UNCHANGED agentRest

\* handle_exits returns; the rest of the iteration leaves the ledger alone.
CycleLeavesExits ==
    /\ c_pc = "exits"
    /\ c_idx > Len(c_frame)
    /\ c_pc' = "done"
    /\ UNCHANGED <<logs, feedback_replies, f_pc, log_length, recommendation, f_frame,
                   f_return, c_todo, c_frame, c_idx, c_logs>>
    /\ UNCHANGED <<agentRest, recommendations_df>>

CycleBeside ==
    \/ CycleLogs
    \/ CycleConcatReads
    \/ CycleConcatAssigns
    \/ CycleEntersExits
    \/ CycleExitRow
    \/ CycleLeavesExits

NextIngest == FeedbackStep

NextFeedback ==
    \/ FeedbackStep
    \/ CycleBeside

----------------------------------------------------------------------------
(* The replies and sizes the checks draw from.                             *)

Obj1(k1, v1) == <<"{", k1, ":", v1, "}">>

Obj2(k1, v1, k2, v2) == <<"{", k1, ":", v1, ",", k2, ":", v2, "}">>

\* '{\n    "T1": 2,\n    "USDC_ADDRESS": 1\n}'
IndentedReply ==
    <<"{", "nl", " ", " ", " ", " ", "\"T1\"", ":", " ", "2", ",", "nl",
      " ", " ", " ", " ", "\"USDC_ADDRESS\"", ":", " ", "1", "nl", "}">>

AllocResponses ==
    { IndentedReply,
      <<"txt">>,                                             \* prose, no braces
      <<"txt", " ", "{", "\"T1\"", ":", "1", "}", "nl", "txt">>,
      <<"{", "esc", "tab", "\"T2\"", ":", " ", "2", "esc", "}">>,
      Obj1("\"T1\"", "-1"),                                  \* a negative amount
      Obj1("\"T1\"", "\"T2\""),                              \* a string amount
      Obj1("\"T1\"", "true"),
      Obj2("\"T1\"", "4", "\"USDC_ADDRESS\"", "NaN"),      \* a cash amount of NaN
      <<"{", "}">>,                                          \* the empty object
      <<"{", "\"T1\"", ":", "1">>,                           \* no closing brace
      <<"}", "txt", "{">>,                                   \* braces the wrong way
      <<"{", "\"T1\"", ":", "1", ",", "}">>,                 \* a trailing comma
      Obj2("\"T1\"", "2", "\"EPjF\"", "1"),
      Obj2("\"T1\"", "3", "\"EPjF\"", "1"),
      Obj2("\"T1\"", "4", "\"T2\"", "3"),
      Obj2("\"USDC_ADDRESS\"", "1", "\"EPjF\"", "3"),
      Obj2("\"EPjF\"", "3", "\"USDC_ADDRESS\"", "1") }

UsdSizes == {3, 4}

Percentages == {50, 100}

AllocLocalsClear ==
    /\ a_response = <<>>
    /\ a_first = "-"
    /\ a_fixed = NoReply
    /\ a_prompts = 0
    /\ a_parsed = NoneValue
    /\ a_out = NoneValue

\* No agent: the variables of the loop thread at rest.
NoAgent ==
    /\ status = "initialized"
    /\ stop = FALSE
    /\ tid = FALSE
    /\ pc = "none"
    /\ wallet = <<>>
    /\ MONITORED_TOKENS = <<>>
    /\ market_data = <<>>
    /\ idx = 1
    /\ recommendations_df = <<>>
    /\ csv = CsvAbsent
    /\ iter_logs = <<>>
    /\ allocation = NoneValue
    /\ remaining = {}
    /\ wakes = 0
    /\ analysis_replies = {}
    /\ last_analysis = NoAnalysis
    /\ last_exit = NoCall
    /\ last_entry = NoCall
    /\ stop_when = "-"

\* No server: the variables of the control surface at rest.
NoServer ==
    /\ agent = 0
    /\ created = 0
    /\ s_run_id = [a \in Agents |-> ""]
    /\ s_status = [a \in Agents |-> "initialized"]
    /\ s_stop = [a \in Agents |-> FALSE]
    /\ s_tid = [a \in Agents |-> FALSE]
    /\ s_pc = [a \in Agents |-> "none"]
    /\ s_wakes = 0
    /\ req_pc = [r \in Requests |-> "idle"]
    /\ req_agent = [r \in Requests |-> 0]

\* No feedback call: the variables of process_user_input and of the loop
\* thread beside it at rest.
NoFeedback ==
    /\ logs = <<>>
    /\ feedback_replies = {}
    /\ f_pc = "idle"
    /\ log_length = 0
    /\ recommendation = NoRecommendation
    /\ f_frame = <<>>
    /\ f_return = <<>>
    /\ c_pc = "off"
    /\ c_todo = <<>>
    /\ c_frame = <<>>
    /\ c_idx = 1
    /\ c_logs = 0

\* allocate_portfolio has just been called.
InitAlloc ==
    /\ usd_size \in UsdSizes
    /\ max_pct \in Percentages
    /\ alloc_replies = AllocResponses
    /\ a_pc = "wallet"
    /\ AllocLocalsClear
    /\ NoAgent
    /\ NoServer
    /\ NoFeedback
    /\ NoLogs

SpecAlloc == InitAlloc /\ [][AllocStep]_vars

\* The replies of a cycle run.
SellReply == <<Line("SELL", FALSE, <<>>), Line("Confidence: 75%", TRUE, <<7, 5>>)>>

NothingReply == <<Line("NOTHING", FALSE, <<>>), Line("No clear signal", FALSE, <<>>)>>

CycleAnalysisReplies == {SellReply, NothingReply}

CycleAllocResponses == {IndentedReply, <<"txt">>}

\* A ledger read back from the csv file of an earlier run with the same id.
LoadedLedger ==
    << Row("T1", "SELL", 75, <<"x">>, "pending"),
       Row("T2", "BUY", 80, <<"x">>, "pending"),
       Row(SOL_ADDRESS, "SELL", 90, <<"x">>, "pending"),
       Row("T1", "SELL", 60, <<"x">>, "executed") >>

\* TradingAgent(run_id): setup has run, run() has not been called.
InitCycle ==
    /\ usd_size = 3
    /\ max_pct = 50
    /\ alloc_replies = CycleAllocResponses
    /\ analysis_replies = CycleAnalysisReplies
    /\ a_pc = "idle"
    /\ AllocLocalsClear
    /\ status = "initialized"
    /\ stop = FALSE
    /\ tid = FALSE
    /\ pc = "new"
    /\ \/ /\ wallet = <<"T1">> /\ recommendations_df = <<>> /\ csv = CsvAbsent
          /\ wakes = 0
       \/ /\ wallet = <<>> /\ recommendations_df = LoadedLedger
          /\ csv = CsvOf(LoadedLedger) /\ wakes = 0
       \* a wallet of two tokens, followed for one iteration
       \/ /\ wallet = <<"T1", "T2">> /\ recommendations_df = <<>> /\ csv = CsvAbsent
          /\ wakes = MaxWakes
    /\ MONITORED_TOKENS = <<>>
    /\ market_data = <<>>
    /\ idx = 1
    /\ iter_logs = <<"initialized">>
    /\ allocation = NoneValue
    /\ remaining = {}
    /\ last_analysis = NoAnalysis
    /\ last_exit = NoCall
    /\ last_entry = NoCall
    /\ stop_when = "-"
    /\ NoServer
    /\ NoFeedback
    /\ NoLogs

SpecCycle == InitCycle /\ [][NextCycle]_vars

NextStop == NextCycle \/ WakeStopped

\* The steps of the loop thread but for the first pass of the parser.
FairSteps ==
    \/ ResolveTokens
    \/ LoopCheck
    \/ BeginIteration
    \/ Collect
    \/ Analyze
    \/ Summary
    \/ ExitRow
    \/ CallAllocate
    \/ AllocWallet
    \/ AllocPrompt
    \/ AllocRepair
    \/ AllocValidate
    \/ AllocateReturns
    \/ AllocateEscapes
    \/ ExecuteKey
    \/ ExecuteDone
    \/ Cleanup
    \/ HandleError
    \/ Finally
    \/ AfterIteration
    \/ Wake
    \/ WakeStopped

\* The loop thread is scheduled, and every call it makes and every sleep it
\* enters returns: weak fairness of its steps.  For the first pass of the
\* parser, WF_vars(AllocParseFirst) is written with its enabling condition,
\* a_pc = "first", spelled out.
SpecStop ==
    /\ InitCycle
    /\ [][NextStop]_vars
    /\ WF_vars(FairSteps)
    /\ ([]<>(a_pc # "first") \/ []<><<AllocParseFirst>>_vars)

\* The server has started and no request has been made.
InitServer ==
    /\ usd_size = 3
    /\ max_pct = 50
    /\ alloc_replies = {}
    /\ a_pc = "idle"
    /\ AllocLocalsClear
    /\ NoAgent
    /\ NoServer
    /\ NoFeedback
    /\ NoLogs

SpecServer == InitServer /\ [][NextServer]_vars

\* What the model may answer to a feedback prompt.
FullObject ==
    [token |-> "T2", action |-> "SELL", confidence |-> 80, reasoning |-> <<"r">>]

FeedbackResponses ==
    { FeedbackNotJson,
      FeedbackList,
      FeedbackObject(EmptyMap),
      FeedbackObject(FullObject),
      FeedbackObject([action |-> "BUY"]),
      FeedbackObject([token |-> "T1", reasoning |-> <<"r">>]),
      FeedbackObject([token |-> "T1", action |-> ""]),
      FeedbackObject([reasoning |-> <<"r">>]) }

\* The agent at rest but for its ledger and its log.
AgentIdle ==
    /\ usd_size = 3
    /\ max_pct = 50
    /\ alloc_replies = {}
    /\ a_pc = "idle"
    /\ AllocLocalsClear
    /\ status = "initialized"
    /\ stop = FALSE
    /\ tid = FALSE
    /\ pc = "none"
    /\ wallet = <<>>
    /\ MONITORED_TOKENS = <<>>
    /\ market_data = <<>>
    /\ idx = 1
    /\ csv = CsvAbsent
    /\ iter_logs = <<>>
    /\ allocation = NoneValue
    /\ remaining = {}
    /\ wakes = 0
    /\ last_analysis = NoAnalysis
    /\ last_exit = NoCall
    /\ last_entry = NoCall
    /\ stop_when = "-"
    /\ NoServer

\* process_user_input has just been called on an agent whose loop is not running.
InitIngest ==
    /\ AgentIdle
    /\ NoLogs
    /\ analysis_replies = {}
    /\ recommendations_df \in {<<>>, LoadedLedger}
    /\ logs \in {<<>>, <<Entry("assistant", "setup", "initialized")>>}
    /\ feedback_replies = FeedbackResponses
    /\ f_pc = "call"
    /\ log_length = 0
    /\ recommendation = NoRecommendation
    /\ f_frame = <<>>
    /\ f_return = <<>>
    /\ c_pc = "off"
    /\ c_todo = <<>>
    /\ c_frame = <<>>
    /\ c_idx = 1
    /\ c_logs = 0

SpecIngest == InitIngest /\ [][NextIngest]_vars

\* process_user_input has just been called while the loop thread of the
\* agent is about to analyse its tokens.
InitFeedback ==
    /\ AgentIdle
    /\ NoLogs
    /\ analysis_replies = {SellReply}
    /\ recommendations_df = <<Row("T1", "SELL", 75, <<"x">>, "pending")>>
    /\ logs = <<Entry("assistant", "setup", "initialized")>>
    /\ feedback_replies = {FeedbackObject(EmptyMap), FeedbackObject(FullObject)}
    /\ f_pc = "call"
    /\ log_length = 0
    /\ recommendation = NoRecommendation
    /\ f_frame = <<>>
    /\ f_return = <<>>
    /\ c_pc = "analyze"
    /\ c_todo = <<"T2">>
    /\ c_frame = <<>>
    /\ c_idx = 1
    /\ c_logs = 0

SpecFeedback == InitFeedback /\ [][NextFeedback]_vars

\* The wallet acquires T2, or disposes of T1, while the loop thread sleeps
\* between two iterations.
WalletChanges ==
    /\ pc = "sleep"
    /\ wallet = <<"T1">>
    /\ wallet' \in {<<"T1", "T2">>, <<>>}
    /\ UNCHANGED <<status, stop, tid, pc, MONITORED_TOKENS, market_data, idx,
                   recommendations_df, csv, iter_logs, allocation, remaining, wakes,
                   last_analysis, last_exit, last_entry, a_pc, stop_when>>
    /\ UNCHANGED <<allocLocals, usd_size, max_pct, alloc_replies, analysis_replies,
                   serverVars, feedbackVars, logVars>>

\* TradingAgent(run_id) for a wallet that holds T1: setup has run, run() has
\* not been called.
InitWallet ==
    /\ usd_size = 3
    /\ max_pct = 50
    /\ alloc_replies = CycleAllocResponses
    /\ analysis_replies = {SellReply}
    /\ a_pc = "idle"
    /\ AllocLocalsClear
    /\ status = "initialized"
    /\ stop = FALSE
    /\ tid = FALSE
    /\ pc = "new"
    /\ wallet = <<"T1">>
    /\ recommendations_df = <<>>
    /\ csv = CsvAbsent
    /\ wakes = 0
    /\ MONITORED_TOKENS = <<>>
    /\ market_data = <<>>
    /\ idx = 1
    /\ iter_logs = <<"initialized">>
    /\ allocation = NoneValue
    /\ remaining = {}
    /\ last_analysis = NoAnalysis
    /\ last_exit = NoCall
    /\ last_entry = NoCall
    /\ stop_when = "-"
    /\ NoServer
    /\ NoFeedback
    /\ NoLogs

NextWallet == NextCycle \/ WalletChanges

SpecWallet == InitWallet /\ [][NextWallet]_vars

\* Replies to the allocation prompt for a portfolio of 3: two amounts that
\* add up to the size, an amount above the size beside a cash amount of NaN,
\* and prose.
EntryAllocResponses ==
    { Obj2("\"T1\"", "1", "\"T2\"", "2"),
      Obj2("\"T1\"", "4", "\"USDC_ADDRESS\"", "NaN"),
      <<"txt">> }

\* TradingAgent(run_id) for a wallet that holds T1, with those replies: setup
\* has run, run() has not been called.
InitEntries ==
    /\ usd_size = 3
    /\ max_pct = 50
    /\ alloc_replies = EntryAllocResponses
    /\ analysis_replies = {SellReply}
    /\ a_pc = "idle"
    /\ AllocLocalsClear
    /\ status = "initialized"
    /\ stop = FALSE
    /\ tid = FALSE
    /\ pc = "new"
    /\ wallet = <<"T1">>
    /\ recommendations_df = <<>>
    /\ csv = CsvAbsent
    /\ wakes = 0
    /\ MONITORED_TOKENS = <<>>
    /\ market_data = <<>>
    /\ idx = 1
    /\ iter_logs = <<"initialized">>
    /\ allocation = NoneValue
    /\ remaining = {}
    /\ last_analysis = NoAnalysis
    /\ last_exit = NoCall
    /\ last_entry = NoCall
    /\ stop_when = "-"
    /\ NoServer
    /\ NoFeedback
    /\ NoLogs

SpecEntries == InitEntries /\ [][NextCycle]_vars

----------------------------------------------------------------------------
(* self.log and save_logs, called by several threads of the process, and   *)
(* setup, which reads the log file of its run id.                          *)

\* How many self.log calls each thread makes.
MaxLogCalls == 2

\* The run id of an agent: the first agent runs "r1".
RunOf(a) == IF a = 1 THEN "r1" ELSE l_run

\* Lines 114-131, called by update_agent (server.py 54-59): setup of the
\* second agent reads the log file of its run id, outside the lock.  A file
\* that another thread has opened for writing and not yet written does not
\* parse: json.load raises and no agent is constructed.
SetupLoads ==
    /\ l_pc["new"] = "none"
    /\ LET f == l_file[l_run]
       IN  IF f.exists /\ ~f.whole
           THEN /\ l_pc' = [l_pc EXCEPT !["new"] = "failed"]
                /\ UNCHANGED l_logs
           ELSE /\ l_logs' = [l_logs EXCEPT ![2] = IF f.exists THEN f.logs ELSE <<>>]
                /\ l_pc' = [l_pc EXCEPT !["new"] = "idle"]
    /\ UNCHANGED <<mutex, l_calls, l_run, l_file, l_last>>
    /\ UNCHANGED <<allocVars, cycleVars, serverVars, feedbackVars>>

\* Lines 133-146: self.log appends the entry to self.logs and calls save_logs.
LogAppends(t) ==
    /\ l_pc[t] = "idle"
    /\ l_calls[t] < MaxLogCalls
    /\ l_calls' = [l_calls EXCEPT ![t] = @ + 1]
    /\ l_logs' = [l_logs EXCEPT ![AgentOf(t)] = Append(@, <<t, l_calls[t] + 1>>)]
    /\ l_pc' = [l_pc EXCEPT ![t] = "wait"]
    /\ UNCHANGED <<mutex, l_run, l_file, l_last>>
    /\ UNCHANGED <<allocVars, cycleVars, serverVars, feedbackVars>>

\* save_logs entered without waiting for the lock.
SaveLogsAcquires_NoLock(t) ==
    /\ l_pc[t] = "wait"
    /\ mutex' = t
    /\ l_pc' = [l_pc EXCEPT ![t] = "open"]
    /\ UNCHANGED <<l_calls, l_run, l_logs, l_file, l_last>>
    /\ UNCHANGED <<allocVars, cycleVars, serverVars, feedbackVars>>

\* Line 155: with mutex
SaveLogsAcquires(t) ==
    /\ l_pc[t] = "wait"
    /\ mutex = "free"
    /\ mutex' = t
    /\ l_pc' = [l_pc EXCEPT ![t] = "open"]
    /\ UNCHANGED <<l_calls, l_run, l_logs, l_file, l_last>>
    /\ UNCHANGED <<allocVars, cycleVars, serverVars, feedbackVars>>

\* Line 170: open(file_name, "w") creates the file or empties it.
SaveLogsOpens(t) ==
    /\ l_pc[t] = "open"
    /\ l_file' = [l_file EXCEPT ![RunOf(AgentOf(t))] =
                      [exists |-> TRUE, whole |-> FALSE, logs |-> <<>>]]
    /\ l_pc' = [l_pc EXCEPT ![t] = "dump"]
    /\ UNCHANGED <<mutex, l_calls, l_run, l_logs, l_last>>
    /\ UNCHANGED <<allocVars, cycleVars, serverVars, feedbackVars>>

\* Lines 171-172: json.dump writes self.logs as it is now, the file is
\* closed, and the lock is released.
SaveLogsDumps(t) ==
    /\ l_pc[t] = "dump"
    /\ l_file' = [l_file EXCEPT ![RunOf(AgentOf(t))] =
                      [exists |-> TRUE, whole |-> TRUE, logs |-> l_logs[AgentOf(t)]]]
    /\ l_last' = [l_last EXCEPT ![RunOf(AgentOf(t))] = l_logs[AgentOf(t)]]
    /\ mutex' = "free"
    /\ l_pc' = [l_pc EXCEPT ![t] = "idle"]
    /\ UNCHANGED <<l_calls, l_run, l_logs>>
    /\ UNCHANGED <<allocVars, cycleVars, serverVars, feedbackVars>>

NextLogs ==
    \/ SetupLoads
    \/ \E t \in Threads :
          \/ LogAppends(t)
          \/ SaveLogsAcquires(t)
          \/ SaveLogsOpens(t)
          \/ SaveLogsDumps(t)

\* The first agent is running and has logged once; update_agent is about to
\* construct the second agent, for the same run id or for another.
InitLogs ==
    /\ AgentIdle
    /\ analysis_replies = {}
    /\ recommendations_df = <<>>
    /\ NoFeedback
    /\ mutex = "free"
    /\ l_pc = [t \in Threads |-> IF t = "new" THEN "none" ELSE "idle"]
    /\ l_calls = [t \in Threads |-> 0]
    /\ l_run \in {"r1", "r2"}
    /\ l_logs = [a \in {1, 2} |-> IF a = 1 THEN << <<"setup", 1>> >> ELSE <<>>]
    /\ l_file = [r \in {"r1", "r2"} |->
                    IF r = "r1" THEN [exists |-> TRUE, whole |-> TRUE,
                                      logs |-> << <<"setup", 1>> >>]
                    ELSE [exists |-> FALSE, whole |-> TRUE, logs |-> <<>>]]
    /\ l_last = [r \in {"r1", "r2"} |-> IF r = "r1" THEN << <<"setup", 1>> >> ELSE <<>>]

SpecLogs == InitLogs /\ [][NextLogs]_vars

\* How many lines a reply to an analysis prompt has at most.
MaxLines == 3

\* The lines of the replies: an action, lines that hold "confidence" with
\* and without digits, a line with digits that does not hold it.
AnalysisLines ==
    { Line(" BUY ", FALSE, <<>>),
      Line("confidence: 75%", TRUE, <<7, 5>>),
      Line("Confidence: high", TRUE, <<>>),
      Line("CONFIDENCE 9", TRUE, <<9>>),
      Line("rsi 30", FALSE, <<3, 0>>) }

\* The replies analyze_market_data is applied to; <<>> is the empty string.
AnalysisResponses ==
    UNION { [1..n -> AnalysisLines] : n \in 0..MaxLines }

\* analyze_market_data is about to be called for one token, the model
\* holding one reply.
InitAnalysis ==
    /\ AgentIdle
    /\ NoLogs
    /\ \E r \in AnalysisResponses : analysis_replies = {r}
    /\ recommendations_df = <<>>
    /\ logs = <<>>
    /\ feedback_replies = {}
    /\ f_pc = "idle"
    /\ log_length = 0
    /\ recommendation = NoRecommendation
    /\ f_frame = <<>>
    /\ f_return = <<>>
    /\ c_pc = "analyze"
    /\ c_todo = <<"T1">>
    /\ c_frame = <<>>
    /\ c_idx = 1
    /\ c_logs = 0

NextAnalysis == CycleConcatReads \/ CycleConcatAssigns

SpecAnalysis == InitAnalysis /\ [][NextAnalysis]_vars

----------------------------------------------------------------------------
(* The claims.                                                             *)

Range(f) == {f[i] : i \in DOMAIN f}

\* The places of the loop thread inside an iteration, from the first
\* statement of the try block to the end of the finally block.
InIteration == {"collect", "analyze", "exits", "allocate", "execute", "cleanup",
                "except", "finally"}

\* C1: the status of an agent changes only from Initialized to Trading, from
\* Trading to Sleeping and from Sleeping to Trading, in iterations that run to
\* their end and in iterations abandoned by an exception.
C1_StatusTransitions ==
    [][status' # status =>
          \/ status = "initialized" /\ status' = "trading"
          \/ status = "trading" /\ status' = "sleeping"
          \/ status = "sleeping" /\ status' = "trading"]_vars

\* C1's case: the agent has been Initialized, Trading and Sleeping, and is
\* Trading again in its second iteration.
C1_Witness ==
    /\ wallet = <<"T1">>
    /\ wakes = 1
    /\ status = "trading"
    /\ pc = "collect"

\* C2, as claimed: when the loop has exited on the stop flag, the status is
\* Sleeping.
C2_Original == pc = "exited" => status = "sleeping"

\* C2, amended: when the loop has exited on the stop flag, the status is
\* Sleeping if an iteration was begun and Initialized if the flag was seen at
\* the first check of the loop; it does not change afterwards.
C2_ExitStatus ==
    /\ [](pc = "exited" =>
             IF "snapshot" \in Range(iter_logs)
             THEN status = "sleeping"
             ELSE status = "initialized" /\ iter_logs = <<"initialized">>)
    /\ [][pc = "exited" => pc' = "exited" /\ status' = status]_vars

\* C2's case: stop() came after run() had returned and before the first
\* check of the loop, and the loop has exited.
C2_Witness ==
    /\ pc = "exited"
    /\ tid
    /\ stop_when = "early"
    /\ status = "initialized"

\* C3, as claimed: at most one loop is inside an iteration at any time.
C3_OneLoopTrading ==
    Cardinality({a \in Agents : s_status[a] = "trading" /\ s_pc[a] \in {"body", "finally"}}) <= 1

\* The order of the steps of an iteration, whatever the stop flag holds.
StepsInOrder(from, to) ==
    CASE from = "collect"  -> to = "analyze"
      [] from = "analyze"  -> to = "exits"
      [] from = "exits"    -> to \in {"allocate", "except"}
      [] from = "allocate" -> to \in {"execute", "cleanup", "except"}
      [] from = "execute"  -> to = "cleanup"
      [] from = "cleanup"  -> to = "finally"
      [] from = "except"   -> to = "finally"
      [] from = "finally"  -> to = "after"
      [] OTHER -> TRUE

\* C4: once stop has been requested during an iteration, the steps of the
\* iteration still follow one another to the finally block, which persists the
\* ledger and sets Sleeping; the sleep is skipped; the loop exits at its next
\* check; and at the exit the ledger on file is the ledger in memory.
C4_StopIsCooperative ==
    /\ [][(stop /\ pc' # pc) =>
             /\ StepsInOrder(pc, pc')
             /\ pc = "finally" => csv' = CsvOf(recommendations_df') /\ status' = "sleeping"
             /\ pc = "after" => pc' = "top"
             /\ pc = "top" => pc' = "exited"
             /\ pc' = "exited" => pc = "top"]_vars
    /\ [](stop_when = "iteration" /\ pc = "exited" =>
             /\ status = "sleeping"
             /\ csv = CsvOf(recommendations_df)
             /\ "snapshot" \in Range(iter_logs))

\* C4's case: stop was requested during the first iteration and the loop
\* has exited without sleeping.
C4_Witness ==
    /\ stop_when = "iteration"
    /\ pc = "exited"
    /\ wakes = 0
    /\ Len(recommendations_df) > 0

C6_AnalysisFallback ==
    [][/\ (last_analysis' # last_analysis /\ last_analysis'.failed) =>
             /\ Len(recommendations_df') = Len(recommendations_df) + 1
             /\ SubSeq(recommendations_df', 1, Len(recommendations_df)) = recommendations_df
             /\ LET row == recommendations_df'[Len(recommendations_df')]
                IN  /\ row.token = market_data[idx]
                    /\ row.token = last_analysis'.token
                    /\ row.action = "NOTHING"
                    /\ row.confidence = 0
                    /\ row.status = "pending"
             /\ pc' = "analyze"
             /\ idx' = idx + 1
       /\ (pc = "analyze" /\ pc' # pc) => pc' = "exits" /\ idx > Len(market_data)
       /\ (pc = "exits" /\ pc' # pc) => pc' \in {"allocate", "except"}]_vars

\* C6's case: the analysis of the first of two tokens has failed and the
\* second is about to be analysed.
C6_Witness ==
    /\ pc = "analyze"
    /\ last_analysis.failed
    /\ last_analysis.at = 1
    /\ Len(market_data) = 2
    /\ idx = 2

\* The map the parser returned holds numbers only, none negative.
WellFormed(parsed) ==
    /\ ~parsed.none
    /\ \A k \in DOMAIN parsed.map : parsed.map[k].kind = "num" /\ parsed.map[k].n >= 0

RECURSIVE SumOver(_, _)
SumOver(m, keys) ==
    IF keys = {} THEN 0
    ELSE LET k == CHOOSE x \in keys : TRUE
         IN  m[k].n + SumOver(m, keys \ {k})

\* The sum of the values of the response's map.
ResponseTotal(m) == SumOver(m, DOMAIN m)

\* The sum once the amount under "USDC_ADDRESS" stands for the cash amount.
NormalisedTotal(m) ==
    IF "USDC_ADDRESS" \in DOMAIN m
    THEN SumOver(m, DOMAIN m \ {USDC_ADDRESS})
    ELSE SumOver(m, DOMAIN m)

\* C7, as claimed: for a well-formed response, allocate returns none when the
\* sum of the values exceeds the total size and a map in every other case.
C7_Original ==
    (a_pc = "returned" /\ a_first = "ok" /\ WellFormed(a_parsed)) =>
        (a_out.none <=> ResponseTotal(a_parsed.map) > usd_size)

\* C7, amended: for a well-formed response, allocate returns none when the
\* map is empty or when the sum of its values, the amount under the key
\* "USDC_ADDRESS" standing for the cash amount, exceeds the total size; in
\* every other case, the sum equal to the total size included, it returns the
\* map with that key renamed.
C7_TotalBudget ==
    (a_pc = "returned" /\ WellFormed(a_parsed)) =>
        LET m == a_parsed.map
        IN  IF DOMAIN m = {} \/ NormalisedTotal(m) > usd_size
            THEN a_out.none
            ELSE /\ ~a_out.none
                 /\ "USDC_ADDRESS" \notin DOMAIN a_out.map
                 /\ DOMAIN m \ {"USDC_ADDRESS"} \subseteq DOMAIN a_out.map
                 /\ \A k \in DOMAIN m \ {"USDC_ADDRESS", USDC_ADDRESS} : a_out.map[k] = m[k]
                 /\ ResponseTotal(a_out.map) = NormalisedTotal(m)

\* C7's case: the sum equals the total size and the map is returned.
C7_Witness ==
    /\ a_pc = "returned"
    /\ a_first = "ok"
    /\ WellFormed(a_parsed)
    /\ ResponseTotal(a_parsed.map) = usd_size
    /\ ~a_out.none

\* C8, as claimed: the parser issues no repair prompt when the first pass
\* succeeds and exactly one when it fails; what it then returns is what the
\* steps of the first pass give on the repair reply, and None when the repair
\* call raises; no exception leaves the parser.
C8_RepairOnce ==
    /\ a_prompts <= 1
    /\ a_first = "ok" => a_prompts = 0 /\ a_parsed = FirstPass(a_response)
    /\ (a_first = "failed" /\ a_pc \in {"validate", "returned"}) =>
          /\ a_prompts = 1
          /\ a_parsed = IF a_fixed.raised THEN NoneValue ELSE FirstPass(Str(a_fixed))
    /\ a_pc = "escaped" => a_first = "-" /\ a_prompts = 0

\* C9, as claimed: every non-cash value of a returned map is at most
\* MAX_POSITION_PERCENTAGE percent of the total size.
C9_Original ==
    (a_pc = "returned" /\ ~a_out.none) =>
        \A k \in DOMAIN a_out.map \ {USDC_ADDRESS} :
            a_out.map[k].n * 100 <= max_pct * usd_size

\* C9, amended: every non-cash value of a returned map that holds no nan is
\* at most the total size.
C9_ValueWithinTotal ==
    (/\ a_pc = "returned"
     /\ ~a_out.none
     /\ \A k \in DOMAIN a_out.map : a_out.map[k].kind # "nan") =>
        \A k \in DOMAIN a_out.map \ {USDC_ADDRESS} : a_out.map[k].n <= usd_size

\* C9's case: a returned map holds a non-cash value above the position cap.
C9_Witness ==
    /\ a_pc = "returned"
    /\ ~a_out.none
    /\ \A k \in DOMAIN a_out.map : a_out.map[k].kind # "nan"
    /\ \E k \in DOMAIN a_out.map \ {USDC_ADDRESS} :
          a_out.map[k].n * 100 > max_pct * usd_size

SameRow(r1, r2) == [r1 EXCEPT !.status = ""] = [r2 EXCEPT !.status = ""]

\* C11, as claimed: with cycle iterations and feedback calls interleaved, the
\* status of a ledger row changes only from pending to executed or failed,
\* only in a step of handle_exits, and an executed or failed row keeps its
\* status.
C11_StatusOnlyForward ==
    [][\A i \in 1..Len(recommendations_df) :
          (/\ i <= Len(recommendations_df')
           /\ SameRow(recommendations_df'[i], recommendations_df[i])
           /\ recommendations_df'[i].status # recommendations_df[i].status) =>
               /\ recommendations_df[i].status = "pending"
               /\ recommendations_df'[i].status \in {"executed", "failed"}
               /\ c_pc = "exits"
               /\ f_pc' = f_pc]_vars

\* The feedback call has appended its row and returned.
FeedbackAppended ==
    /\ f_pc = "returned"
    /\ recommendation.kind = "object"
    /\ Truthy(Get(recommendation.obj, "action", None))

\* The loop thread has appended the rows of its analyses.
CycleAppended == c_pc \in {"exits", "done"} /\ c_todo = <<>>

\* C12, as claimed: when a feedback call and the loop thread have both
\* appended a row, the ledger holds the rows it had, the loop's row and the
\* feedback row; and no step makes the ledger shorter.
C12_AppendsSerialized ==
    /\ [](FeedbackAppended /\ CycleAppended =>
            /\ Len(recommendations_df) >= 3
            /\ \E i \in 1..Len(recommendations_df) :
                  SameRow(recommendations_df[i], NewRow(recommendation.obj))
            /\ \E i \in 1..Len(recommendations_df) :
                  /\ recommendations_df[i].token = "T2"
                  /\ recommendations_df[i].status # "NaN")
    /\ [][Len(recommendations_df') >= Len(recommendations_df)]_vars

\* C13, as claimed: every row of the ledger, appended by an analysis, by its
\* handler or by a feedback call, has the status pending, executed or failed.
C13_RowStatus ==
    \A i \in 1..Len(recommendations_df) :
        recommendations_df[i].status \in {"pending", "executed", "failed"}

\* C14, as claimed: no exception leaves a feedback call, whichever of the
\* wallet lookup, the data collection, the model call and the decoding fails;
\* the call goes through its handler to its return and leaves the ledger as
\* it was.
C14_NothingPropagates ==
    [][/\ f_pc' # "raised"
       /\ f_pc = "except" =>
             /\ f_pc' = "finally"
             /\ recommendations_df' = recommendations_df]_vars

\* C15, as claimed: what a feedback call returns is the entries that call
\* appended and nothing else, the first of them the user entry, also when
\* the loop thread appends entries of its own meanwhile.
C15_ReturnsOwnEntries ==
    f_pc = "returned" =>
        /\ f_return # <<>>
        /\ f_return[1].role = "user"
        /\ \A i \in 1..Len(f_return) : f_return[i].by = "feedback"

\* The decoded answer is an object with at least one key.
NonEmptyObject == recommendation.kind = "object" /\ DOMAIN recommendation.obj # {}

\* The decoded answer is an object with an action that is not the empty string.
HasAction ==
    /\ recommendation.kind = "object"
    /\ "action" \in DOMAIN recommendation.obj
    /\ recommendation.obj["action"] # ""

\* One step of a feedback call, a row being appended exactly when the decoded
\* answer satisfies adds: from the decoded answer the call goes on to append
\* exactly then; the appending step puts one row at the end of the ledger,
\* its confidence 100 and its token ALL where the object has none; every
\* other step leaves the ledger alone.
AppendsWhen(adds) ==
    /\ (f_pc = "decoded" /\ recommendation.kind = "object") =>
          ((f_pc' = "concat") <=> adds)
    /\ IF f_pc = "assign"
       THEN LET obj == recommendation.obj
                n == Len(recommendations_df)
            IN  /\ adds
                /\ Len(recommendations_df') = n + 1
                /\ SubSeq(recommendations_df', 1, n) = recommendations_df
                /\ recommendations_df'[n + 1].token =
                       (IF "token" \in DOMAIN obj THEN obj["token"] ELSE "ALL")
                /\ recommendations_df'[n + 1].confidence =
                       (IF "confidence" \in DOMAIN obj THEN obj["confidence"] ELSE 100)
       ELSE recommendations_df' = recommendations_df

\* C16, as claimed: an empty object leaves the ledger unchanged and every
\* non-empty object appends exactly one row, with confidence 100 and token
\* ALL as the defaults.
C16_Original == [][AppendsWhen(NonEmptyObject)]_vars

\* C16, corrected: an empty object, and an object without an action or with
\* an empty one, leave the ledger unchanged; an object with an action
\* appends exactly one row, with confidence 100 and token ALL as the defaults.
C16_RowWhenAction == [][AppendsWhen(HasAction)]_vars

\* C16's case: the call has appended the row of {"action": "BUY"}, with the
\* defaults for the token and the confidence.
C16_Witness ==
    /\ f_pc = "returned"
    /\ recommendation = FeedbackObject([action |-> "BUY"])
    /\ Len(recommendations_df) > 0
    /\ LET last == recommendations_df[Len(recommendations_df)]
       IN  last.action = "BUY" /\ last.token = "ALL" /\ last.confidence = 100

\* analyze_market_data has appended the row of the model's reply.
Analysed ==
    /\ c_pc = "analyze"
    /\ c_todo = <<>>
    /\ Len(recommendations_df) = 1
    /\ recommendations_df[1].reasoning # <<"Error during analysis">>

\* The lines of the reply the model holds, as response.split("\n") gives them.
ReplyLines == Split(CHOOSE r \in analysis_replies : TRUE)

\* The places of the lines that hold "confidence".
Matching == {i \in 1..Len(ReplyLines) : ReplyLines[i].conf}

FirstOf(S) == CHOOSE i \in S : \A j \in S : i <= j

LastOf(S) == CHOOSE i \in S : \A j \in S : j <= i

\* What one matching line sets confidence to.
LineValue(line) == IF line.digits = <<>> THEN 50 ELSE IntOfDigits(line.digits)

C18_Original ==
    (Analysed /\ Matching # {}) =>
        recommendations_df[1].confidence = LineValue(ReplyLines[FirstOf(Matching)])

\* C18, corrected: with several matching lines the last of them decides the
\* stored confidence.
C18_LastLineDecides ==
    (Analysed /\ Matching # {}) =>
        recommendations_df[1].confidence = LineValue(ReplyLines[LastOf(Matching)])

\* C18's case: the row of a reply with two matching lines of different
\* values, the stored confidence that of the second.
C18_Witness ==
    /\ Analysed
    /\ Cardinality(Matching) = 2
    /\ LineValue(ReplyLines[FirstOf(Matching)]) = 75
    /\ LineValue(ReplyLines[LastOf(Matching)]) = 9
    /\ recommendations_df[1].confidence = 9

\* C19, as claimed: the row of the empty reply has the action NOTHING and
\* the placeholder as its reasoning.
C19_EmptyReply ==
    (Analysed /\ analysis_replies = {<<>>}) =>
        /\ recommendations_df[1].action = "NOTHING"
        /\ recommendations_df[1].reasoning = <<"No detailed reasoning provided">>

\* C20, as claimed: the tokens an iteration collects market data for are
\* those the wallet holds when the iteration starts.
C20_TokensResolvedAnew ==
    pc = "collect" => MONITORED_TOKENS = wallet

\* C22, as claimed: the loop thread of a started agent ends only at the
\* loop condition, with the stop flag set; no exception of a collaborator
\* ends it.
C22_LoopEndsOnlyOnStop ==
    [][(pc \notin {"exited", "dead"} /\ pc' \in {"exited", "dead"}) =>
           /\ pc = "top"
           /\ stop
           /\ pc' = "exited"]_vars

\* C24: the exit collaborator and the entry collaborator are never called
\* for the cash token or for SOL, whatever pending rows the ledger holds for
\* them and whatever keys the allocation holds.
C24_ExcludedNeverTraded ==
    /\ last_exit.calls > 0 => last_exit.token \notin {USDC_ADDRESS, SOL_ADDRESS}
    /\ last_entry.calls > 0 => last_entry.token \notin {USDC_ADDRESS, SOL_ADDRESS}

\* C24's case: execute_allocations has passed over the cash key of the
\* allocation, after handle_exits has passed over a pending SELL row for SOL.
C24_Witness ==
    /\ pc = "execute"
    /\ last_entry.token = USDC_ADDRESS
    /\ last_entry.calls = 0
    /\ \E i \in 1..Len(recommendations_df) :
          /\ recommendations_df[i].token = SOL_ADDRESS
          /\ recommendations_df[i].action = "SELL"
          /\ recommendations_df[i].status = "pending"

\* C25: each step of execute_allocations takes one key of the allocation;
\* for a key that is not excluded and whose position could be read, n.ai_entry
\* is called once when the position is below the target and not at all
\* otherwise, and the amount it is given is the target itself.
C25_EntryBelowTarget ==
    [][(pc = "execute" /\ remaining' # remaining) =>
          LET token  == CHOOSE t \in remaining : t \notin remaining'
              target == allocation.map[token].n
          IN  /\ remaining' = remaining \ {token}
              /\ last_entry'.token = token
              /\ token \in {USDC_ADDRESS, SOL_ADDRESS} => last_entry'.calls = 0
              /\ last_entry'.looked =>
                    /\ last_entry'.calls =
                          (IF last_entry'.position < target THEN 1 ELSE 0)
                    /\ last_entry'.calls = 1 => last_entry'.amount = target]_vars

\* C25's case: n.ai_entry has been called for a token whose position is
\* above 0 and below its target, with the target as the amount.
C25_Witness ==
    /\ pc = "execute"
    /\ last_entry.calls = 1
    /\ last_entry.position > 0
    /\ last_entry.position < last_entry.amount
    /\ last_entry.amount = allocation.map[last_entry.token].n

\* C26: in an iteration n.chunk_kill is called only in handle_exits, before
\* allocate_portfolio is called; the allocation prompt is sent only after
\* handle_exits has gone through the ledger; n.ai_entry is called only in
\* execute_allocations, for a key of the map allocate_portfolio returned; and
\* handle_exits does not run again after execute_allocations.
C26_ExitsAllocationEntries ==
    [][/\ (last_exit' # last_exit /\ last_exit'.calls > 0) =>
             pc = "exits" /\ a_pc = "idle" /\ a_prompts = 0
       /\ (a_prompts' > a_prompts) => pc = "allocate" /\ pc' = "allocate"
       /\ (last_entry' # last_entry /\ last_entry'.calls > 0) =>
             /\ pc = "execute"
             /\ a_pc = "idle"
             /\ ~allocation.none
             /\ last_entry'.token \in DOMAIN allocation.map
       /\ pc' = "allocate" => pc \in {"exits", "allocate"}
       /\ pc' = "exits" => pc \in {"analyze", "exits"}
       /\ pc' = "execute" => pc \in {"allocate", "execute"}]_vars

\* C26's case: n.ai_entry has been called in an iteration whose handle_exits
\* closed a position.
C26_Witness ==
    /\ pc = "execute"
    /\ last_entry.calls = 1
    /\ \E i \in 1..Len(recommendations_df) : recommendations_df[i].status = "executed"
    /\ csv = CsvAbsent

\* C27, as claimed: a map the parser returns, from its first pass or from its
\* repair pass, holds numbers only, none of them below 0.
C27_ParsedAmounts ==
    (a_pc \in {"validate", "returned"} /\ ~a_parsed.none) =>
        \A k \in DOMAIN a_parsed.map :
            a_parsed.map[k].kind = "num" /\ a_parsed.map[k].n >= 0

\* C28: when the parsed map holds the literal key "USDC_ADDRESS", the map
\* allocate_portfolio returns has no such key, holds under the address of the
\* cash token the value the literal key had, and holds every other key with
\* its value.
C28_CashKeyReplaced ==
    (a_pc = "returned" /\ ~a_out.none /\ "USDC_ADDRESS" \in DOMAIN a_parsed.map) =>
        /\ "USDC_ADDRESS" \notin DOMAIN a_out.map
        /\ USDC_ADDRESS \in DOMAIN a_out.map
        /\ a_out.map[USDC_ADDRESS] = a_parsed.map["USDC_ADDRESS"]
        /\ \A k \in DOMAIN a_parsed.map \ {"USDC_ADDRESS", USDC_ADDRESS} :
              k \in DOMAIN a_out.map /\ a_out.map[k] = a_parsed.map[k]

\* C28's case: allocate_portfolio has returned a map for a response that
\* holds the literal key beside the cash token's address with another value.
C28_Witness ==
    /\ a_pc = "returned"
    /\ ~a_out.none
    /\ "USDC_ADDRESS" \in DOMAIN a_parsed.map
    /\ USDC_ADDRESS \in DOMAIN a_parsed.map
    /\ a_parsed.map[USDC_ADDRESS] # a_parsed.map["USDC_ADDRESS"]
    /\ a_out.map[USDC_ADDRESS].n = 1

\* C30: stop() sets the stop flag only when the thread handle is stored; a
\* call made before that leaves the flag false and every field of the agent
\* as it was, and the loop that run() started goes into its iterations with
\* the flag false.
C30_StopNeedsHandle ==
    /\ [][/\ stop' # stop => tid /\ stop'
          /\ (stop_when' = "ignored" /\ stop_when # "ignored") =>
                /\ ~tid
                /\ UNCHANGED <<stop, status, tid, pc, recommendations_df, csv,
                               iter_logs, MONITORED_TOKENS, wakes>>]_vars
    /\ [](stop_when = "ignored" => ~stop)

\* C30's case: stop() was called before run() stored the thread handle, and
\* the loop is inside its first iteration with the flag false.
C30_Witness ==
    /\ stop_when = "ignored"
    /\ tid
    /\ ~stop
    /\ status = "trading"
    /\ pc = "collect"
    /\ wakes = 0

\* C29: once the stop flag is set (stop() called with the thread handle
\* stored) the loop thread comes to its end, and the loop condition that
\* follows the request starts no iteration.
C29_StopTerminates ==
    /\ stop ~> (pc \in {"exited", "dead"})
    /\ [][(stop /\ pc = "top") => pc' = "exited"]_vars

\* C29's case: stop() was called during a sleep after which the model lets
\* no further sleep run out, and the loop has exited.
C29_Witness ==
    /\ stop_when = "late"
    /\ wakes = MaxWakes
    /\ pc = "exited"

\* C21: at most one thread is between open(file_name, "w") and the end of
\* json.dump at any time, and that thread holds the lock.
C21_OneWriter ==
    /\ Cardinality({t \in Threads : l_pc[t] \in {"open", "dump"}}) <= 1
    /\ \A t \in Threads : l_pc[t] \in {"open", "dump"} => mutex = t

\* C21's case: the loop thread of the first agent has opened the log file
\* while a feedback call on the same agent and the thread of the second
\* agent are waiting to write.
C21_Witness ==
    /\ l_pc["old"] = "dump"
    /\ l_pc["fb"] = "wait"
    /\ l_pc["new"] = "wait"

\* s is a prefix of t.
IsPrefix(s, t) == Len(s) <= Len(t) /\ SubSeq(t, 1, Len(s)) = s

\* C23, as claimed: every version of the log file of a run id that is
\* written in full extends the version written before it.
C23_LogAppendOnly ==
    [][\A r \in {"r1", "r2"} : IsPrefix(l_last[r], l_last'[r])]_vars

\* C31, as claimed: in every iteration the amounts handed to n.ai_entry add up
\* to at most the portfolio size the allocation of that iteration was made
\* for, whatever the model replied.
C31_EntriesWithinTotal ==
    last_entry.spent <= usd_size

\* C31 where every amount of the allocation is a number: execute_allocations
\* has handed n.ai_entry at most the portfolio size.
C31_FiniteEntriesWithinTotal ==
    (pc = "execute" /\ \A k \in DOMAIN allocation.map : allocation.map[k].kind # "nan")
        => last_entry.spent <= usd_size

\* Two entries of one iteration that together take the whole portfolio size.
C31_WholeSizeEntered ==
    /\ pc = "execute"
    /\ remaining = {}
    /\ DOMAIN allocation.map = {"T1", "T2"}
    /\ last_entry.calls = 1
    /\ last_entry.spent = usd_size
    /\ last_entry.spent > last_entry.amount

\* C31's failing case: the allocation holds a cash amount of NaN, and one
\* entry is handed more than the portfolio size.
C31_Witness ==
    /\ pc = "execute"
    /\ USDC_ADDRESS \in DOMAIN allocation.map
    /\ allocation.map[USDC_ADDRESS].kind = "nan"
    /\ last_entry.calls = 1
    /\ last_entry.token = "T1"
    /\ last_entry.amount > usd_size
    /\ last_entry.spent = last_entry.amount

====
